---- MODULE Spec2Model ----
(***************************************************************************)
(* playwright-auth-injector: the provider-abstracted authentication        *)
(* pipeline (config loading, provider registry, Firebase strategy,         *)
(* injectAuth orchestration) as a state machine.                           *)
(*                                                                         *)
(* JavaScript is single-threaded: the code between two awaits runs         *)
(* atomically, so there is one action per await of the source.  The        *)
(* collaborators (module import, firebase-admin, fetch, the Playwright     *)
(* page) return or throw nondeterministically.                             *)
(*                                                                         *)
(* JavaScript values are modelled as strings.  A value that is not a JS    *)
(* string is written with a leading '#': "#undefined", "#42".  An optional *)
(* value is a sequence of length 0 (absent) or 1 (present).                *)
(***************************************************************************)
EXTENDS Integers, Sequences, FiniteSets, TLC

\* ---------------------------------------------------------------- bounds
\* Number of inject / injectAuth calls made in the process.
MaxCalls == 2
\* Number of resetAdminInitialization / clearConfigCache calls made by the test code.
MaxResets == 1
\* Number of documents a page creates (navigations on which the registered
\* script runs).
MaxRuns == 3

\* ---------------------------------------------------------------- values
None == <<>>
Some(x) == <<x>>
IsSome(o) == Len(o) = 1
The(o) == o[1]

Undefined == "#undefined"
\* JS values that are not of type string
NonStrings == {"#undefined", "#42"}
\* JS falsy values among the modelled ones
Falsy == {"", "#undefined"}

\* obj.f for a plain object (a function from its own property names)
Get(obj, f) == IF f \in DOMAIN obj THEN obj[f] ELSE Undefined

\* { ...a, ...b }
Spread(a, b) ==
  [f \in (DOMAIN a) \cup (DOMAIN b) |-> IF f \in DOMAIN b THEN b[f] ELSE a[f]]

\* ---------------------------------------------------------------- errors
\* What a collaborator throws: Error instances (firebase-admin, fetch, the
\* page and JSON.parse all throw Error objects).
ErrorObjects ==
  {"SyntaxError", "AppError", "ImportError", "MintError", "FetchError",
   "BodyError", "LookupError", "ScriptError", "GotoError", "WaitError"}

\* error instanceof Error ? error : undefined
CauseOf(thrown) == IF thrown \in ErrorObjects THEN Some(thrown) ELSE None

\* The five AuthErrorCode kinds
TaxonomyKinds ==
  {"ConfigNotFound", "ConfigInvalid", "AuthenticationFailed",
   "TokenExchangeFailed", "InjectionFailed"}

\* kind: the error class; field: ConfigInvalidError.field; statusCode:
\* TokenExchangeError.statusCode; cause: AuthError.cause; uid: the principal
\* id named in the message; paths: the message of ConfigNotFoundError (it is
\* the one message the callers read for its content).  Each but kind is
\* optional.
MkError(kind, field, status, cause, uid) ==
  [kind |-> kind, field |-> field, statusCode |-> status, cause |-> cause,
   uid |-> uid, paths |-> None]

\* The message of ConfigNotFoundError: its lines.  The heading, then one
\* line `  - ${p}` per search path, in the order of searchPaths.
NotFoundMessage(searchPaths) ==
  << <<"heading">> >>
    \o [i \in DOMAIN searchPaths |-> <<"  - ", searchPaths[i]>>]

\* new ConfigNotFoundError(searchPaths); paths is the message's path part
ConfigNotFoundError(searchPaths) ==
  [MkError("ConfigNotFound", None, None, None, None)
     EXCEPT !.paths = Some(NotFoundMessage(searchPaths))]
ConfigInvalidError(field) == MkError("ConfigInvalid", field, None, None, None)
AuthenticationError(cause, uid) ==
  MkError("AuthenticationFailed", None, None, cause, uid)
TokenExchangeError(status, cause) ==
  MkError("TokenExchangeFailed", None, status, cause, None)
InjectionError(cause) == MkError("InjectionFailed", None, None, cause, None)
\* an error that is no AuthError (a TypeError, a Playwright error, the
\* registry's Error): it propagates as thrown, and is recorded as its own cause
PlainError(thrown) == MkError("Error", None, None, Some(thrown), None)

\* A synchronous function's result: its value, or what it threw
Ok(v) == [ok |-> TRUE, val |-> Some(v), err |-> None]
Throw(e) == [ok |-> FALSE, val |-> None, err |-> Some(e)]

\* ---------------------------------------------------------------- providers
\* !v || typeof v !== 'string'
BadString(v) == v \in Falsy \/ v \in NonStrings

\* a Firebase validation that checks uid before apiKey
FirebaseValidateConfigUidFirst(raw) ==
  IF ~IsSome(raw) THEN Throw(ConfigInvalidError(Some("firebase")))
  ELSE LET c == The(raw) IN
    IF BadString(Get(c, "serviceAccount"))
      THEN Throw(ConfigInvalidError(Some("firebase.serviceAccount")))
    ELSE IF BadString(Get(c, "uid"))
      THEN Throw(ConfigInvalidError(Some("firebase.uid")))
    ELSE IF BadString(Get(c, "apiKey"))
      THEN Throw(ConfigInvalidError(Some("firebase.apiKey")))
    ELSE Ok([serviceAccount |-> c.serviceAccount, apiKey |-> c.apiKey,
             uid |-> c.uid])

\* FirebaseAuthProvider.validateConfig; raw is the optional provider block
FirebaseValidateConfig(raw) ==
  IF ~IsSome(raw) THEN Throw(ConfigInvalidError(Some("firebase")))
  ELSE LET c == The(raw) IN
    IF BadString(Get(c, "serviceAccount"))
      THEN Throw(ConfigInvalidError(Some("firebase.serviceAccount")))
    ELSE IF BadString(Get(c, "apiKey"))
      THEN Throw(ConfigInvalidError(Some("firebase.apiKey")))
    ELSE IF BadString(Get(c, "uid"))
      THEN Throw(ConfigInvalidError(Some("firebase.uid")))
    ELSE Ok([serviceAccount |-> c.serviceAccount, apiKey |-> c.apiKey,
             uid |-> c.uid])

\* SupabaseAuthProvider.validateConfig
SupabaseValidateConfig(raw) ==
  IF ~IsSome(raw) THEN Throw(ConfigInvalidError(Some("supabase")))
  ELSE LET c == The(raw) IN
    IF BadString(Get(c, "url"))
      THEN Throw(ConfigInvalidError(Some("supabase.url")))
    ELSE IF BadString(Get(c, "anonKey"))
      THEN Throw(ConfigInvalidError(Some("supabase.anonKey")))
    ELSE IF BadString(Get(c, "email"))
      THEN Throw(ConfigInvalidError(Some("supabase.email")))
    ELSE IF BadString(Get(c, "password"))
      THEN Throw(ConfigInvalidError(Some("supabase.password")))
    ELSE Ok([url |-> c.url, anonKey |-> c.anonKey, email |-> c.email,
             password |-> c.password])

\* The registry: provider name -> strategy (named by its class)
providers ==
  [n \in {"firebase", "supabase"} |->
     IF n = "firebase" THEN "FirebaseAuthProvider" ELSE "SupabaseAuthProvider"]

\* The property names every object literal inherits from Object.prototype
\* (the modelled ones); each holds a function, a truthy value
ObjectPrototype == {"constructor", "toString", "hasOwnProperty"}

\* providers[name]: an own property, else an inherited one, else undefined
ProvidersLookup(name) ==
  IF name \in DOMAIN providers THEN providers[name]
  ELSE IF name \in ObjectPrototype THEN "Object.prototype." \o name
  ELSE Undefined

\* getProvider(name): throws when the lookup is falsy
GetProvider(name) ==
  IF ProvidersLookup(name) \in Falsy THEN Throw(PlainError("UnknownProvider"))
  ELSE Ok(ProvidersLookup(name))

\* provider.validateConfig(raw), dispatched on the strategy
ProviderValidateConfig(strategy, raw) ==
  IF strategy = "FirebaseAuthProvider" THEN FirebaseValidateConfig(raw)
  ELSE SupabaseValidateConfig(raw)

\* ---------------------------------------------------------------- config.ts
CONFIG_FILE_NAMES ==
  <<"playwright-auth.config.ts", "playwright-auth.config.js",
    "playwright-auth.config.mjs">>

\* process.cwd(), and the directory names that are absolute paths
Cwd == "/proj"
AbsoluteDirs == {"/proj", "/other", "/empty"}

\* resolve(cwd, fileName): the segments of the absolute path; a relative cwd
\* is resolved against process.cwd()
Resolve(cwd, fileName) ==
  IF cwd \in AbsoluteDirs THEN <<cwd, fileName>> ELSE <<Cwd, cwd, fileName>>

\* the candidates joined to cwd as it was given, relative or not
SearchPathsUnresolved(cwd) ==
  [i \in DOMAIN CONFIG_FILE_NAMES |-> <<cwd, CONFIG_FILE_NAMES[i]>>]

\* CONFIG_FILE_NAMES.map(name => resolve(cwd, name))
SearchPaths(cwd) ==
  [i \in DOMAIN CONFIG_FILE_NAMES |-> Resolve(cwd, CONFIG_FILE_NAMES[i])]

\* a search that keeps the last candidate that exists
FindConfigPathLast(files, cwd) ==
  LET hits == {i \in DOMAIN CONFIG_FILE_NAMES :
                 Resolve(cwd, CONFIG_FILE_NAMES[i]) \in DOMAIN files}
  IN IF hits = {} THEN None
     ELSE Some(Resolve(cwd,
            CONFIG_FILE_NAMES[CHOOSE i \in hits : \A j \in hits : i >= j]))

\* findConfigPath(cwd): the first candidate that exists on the file system
\* files (a function from the existing paths to their modules)
FindConfigPath(files, cwd) ==
  LET hits == {i \in DOMAIN CONFIG_FILE_NAMES :
                 Resolve(cwd, CONFIG_FILE_NAMES[i]) \in DOMAIN files}
  IN IF hits = {} THEN None
     ELSE Some(Resolve(cwd,
            CONFIG_FILE_NAMES[CHOOSE i \in hits : \A j \in hits : i <= j]))

\* a validation that checks the block of every registered provider it finds
ValidateConfigAllBlocks(config) ==
  IF ~IsSome(config) THEN Throw(ConfigInvalidError(None))
  ELSE LET c == The(config) IN
    IF c.provider \in Falsy
      THEN Throw(ConfigInvalidError(Some("provider")))
    ELSE IF c.provider # "firebase" /\ c.provider # "supabase"
      THEN Throw(ConfigInvalidError(Some("provider")))
    ELSE LET v == ProviderValidateConfig(providers[c.provider], c[c.provider])
             other == IF c.provider = "firebase" THEN "supabase" ELSE "firebase"
             w == ProviderValidateConfig(providers[other], c[other])
         IN IF ~v.ok THEN Throw(The(v.err))
            ELSE IF IsSome(c[other]) /\ ~w.ok THEN Throw(The(w.err))
            ELSE Ok(c)

\* a validation that leaves unknown provider names to the registry
ValidateConfigAnyProvider(config) ==
  IF ~IsSome(config) THEN Throw(ConfigInvalidError(None))
  ELSE LET c == The(config) IN
    IF c.provider \in Falsy
      THEN Throw(ConfigInvalidError(Some("provider")))
    ELSE LET p == GetProvider(c.provider) IN
      IF ~p.ok THEN Throw(The(p.err))
      ELSE LET v == ProviderValidateConfig(The(p.val), Get(c, c.provider)) IN
        IF v.ok THEN Ok(c) ELSE Throw(The(v.err))

\* validateConfig(config) of config.ts; config is the optional default export
ValidateConfig(config) ==
  IF ~IsSome(config) THEN Throw(ConfigInvalidError(None))
  ELSE LET c == The(config) IN
    IF c.provider \in Falsy
      THEN Throw(ConfigInvalidError(Some("provider")))
    ELSE IF c.provider # "firebase" /\ c.provider # "supabase"
      THEN Throw(ConfigInvalidError(Some("provider")))
    ELSE LET p == GetProvider(c.provider) IN
      IF ~p.ok THEN Throw(The(p.err))
      ELSE LET v == ProviderValidateConfig(The(p.val), c[c.provider]) IN
        IF v.ok THEN Ok(c) ELSE Throw(The(v.err))

\* the catch of loadConfig: ConfigNotFound and ConfigInvalid pass, anything
\* else becomes ConfigInvalid without a field
LoadConfigCatch(e) ==
  IF e.kind \in {"ConfigNotFound", "ConfigInvalid"} THEN e
  ELSE ConfigInvalidError(None)

\* ---------------------------------------------------------------- firebase.ts
\* JSON.parse(serviceAccountJson) returns (it throws a SyntaxError on the
\* malformed blob, on the empty string and on undefined)
JsonParses(sa) == sa \notin {"saMalformed", "", "#undefined"}

\* admin.credential.cert(serviceAccount) returns (it throws on anything but
\* an object holding valid key material)
CertAccepts(sa) == sa \in {"saGood", "saOther"}

\* initializeAdmin without its guard: it initializes whatever the flag says
InitializeAdminUnguarded(flag, sa, appThrows) ==
  IF ~JsonParses(sa)
    THEN [flag |-> FALSE, ran |-> FALSE,
          res |-> Throw(AuthenticationError(CauseOf("SyntaxError"), None))]
  ELSE IF ~CertAccepts(sa) \/ appThrows
    THEN [flag |-> FALSE, ran |-> FALSE,
          res |-> Throw(AuthenticationError(CauseOf("AppError"), None))]
  ELSE [flag |-> TRUE, ran |-> TRUE, res |-> Ok("void")]

\* initializeAdmin with the credential built outside the try: bad key material
\* escapes as the SDK's own error
InitializeAdminCertOutsideTry(flag, sa, appThrows) ==
  IF flag THEN [flag |-> TRUE, ran |-> FALSE, res |-> Ok("void")]
  ELSE IF ~JsonParses(sa)
    THEN [flag |-> FALSE, ran |-> FALSE,
          res |-> Throw(AuthenticationError(CauseOf("SyntaxError"), None))]
  ELSE IF ~CertAccepts(sa)
    THEN [flag |-> FALSE, ran |-> FALSE, res |-> Throw(PlainError("AppError"))]
  ELSE IF appThrows
    THEN [flag |-> FALSE, ran |-> FALSE,
          res |-> Throw(AuthenticationError(CauseOf("AppError"), None))]
  ELSE [flag |-> TRUE, ran |-> TRUE, res |-> Ok("void")]

\* initializeAdmin that sets the flag before it tries: a failed attempt
\* leaves it set
InitializeAdminFlagFirst(flag, sa, appThrows) ==
  IF flag THEN [flag |-> TRUE, ran |-> FALSE, res |-> Ok("void")]
  ELSE IF ~JsonParses(sa)
    THEN [flag |-> TRUE, ran |-> FALSE,
          res |-> Throw(AuthenticationError(CauseOf("SyntaxError"), None))]
  ELSE IF ~CertAccepts(sa) \/ appThrows
    THEN [flag |-> TRUE, ran |-> FALSE,
          res |-> Throw(AuthenticationError(CauseOf("AppError"), None))]
  ELSE [flag |-> TRUE, ran |-> TRUE, res |-> Ok("void")]

\* initializeAdmin(serviceAccountJson) run with the flag as given.  appThrows
\* says whether admin.initializeApp itself throws.
\* Yields the flag afterwards, whether initializeApp returned, and the result.
InitializeAdmin(flag, sa, appThrows) ==
  IF flag THEN [flag |-> TRUE, ran |-> FALSE, res |-> Ok("void")]
  ELSE IF ~JsonParses(sa)
    THEN [flag |-> FALSE, ran |-> FALSE,
          res |-> Throw(AuthenticationError(CauseOf("SyntaxError"), None))]
  ELSE IF ~CertAccepts(sa) \/ appThrows
    THEN [flag |-> FALSE, ran |-> FALSE,
          res |-> Throw(AuthenticationError(CauseOf("AppError"), None))]
  ELSE [flag |-> TRUE, ran |-> TRUE, res |-> Ok("void")]

\* const waitAfter = options.waitAfter || 2000: a wait of 0 is replaced too
WaitAfterOrDefault(waitAfter) ==
  IF IsSome(waitAfter) /\ The(waitAfter) # 0 THEN The(waitAfter) ELSE 2000

\* const { waitAfter = 2000 } = options: the default applies to undefined only
DefaultWaitAfter == 2000
WaitAfterOf(waitAfter) ==
  IF IsSome(waitAfter) THEN The(waitAfter) ELSE DefaultWaitAfter

\* parseInt(s, 10) on the modelled strings; None is NaN
ParseInt(s) ==
  CASE s = "3600" -> Some(3600)
    [] s = "60" -> Some(60)
    [] s = "60s" -> Some(60)
    [] OTHER -> None

\* a + b and a * b on JS numbers (None is NaN)
NumAdd(a, b) == IF IsSome(a) /\ IsSome(b) THEN Some(The(a) + The(b)) ELSE None
NumMul(a, b) == IF IsSome(a) /\ IsSome(b) THEN Some(The(a) * The(b)) ELSE None

\* n.toString(): the decimal string of n, kept apart from the number n
NumToString(n) == <<"str", n>>

\* new Date(creationTime).getTime() on the modelled UTC strings
DateGetTime(s) ==
  CASE s = "Thu, 01 Jan 1970 00:00:01 GMT" -> 1000
    [] OTHER -> 0

\* v || dflt
OrElse(v, dflt) == IF v \in Falsy THEN dflt ELSE v

\* a linked identity copied as it is, its missing fields left undefined
MapProviderRaw(p) ==
  [providerId |-> Get(p, "providerId"), uid |-> Get(p, "uid"),
   displayName |-> Get(p, "displayName"), email |-> Get(p, "email"),
   phoneNumber |-> Get(p, "phoneNumber"), photoURL |-> Get(p, "photoURL")]

\* one element of userRecord.providerData as createAuthData maps it
MapProvider(p) ==
  [providerId |-> Get(p, "providerId"), uid |-> Get(p, "uid"),
   displayName |-> OrElse(Get(p, "displayName"), "null"),
   email |-> OrElse(Get(p, "email"), "null"),
   phoneNumber |-> OrElse(Get(p, "phoneNumber"), "null"),
   photoURL |-> OrElse(Get(p, "photoURL"), "null")]

\* a storage key that names the principal instead of the app
FbaseKeyPerUser(apiKey) == <<"firebase:authUser:", apiKey, ":u1">>

\* the storage key of createAuthData: the parts of the template string
FbaseKey(apiKey) == <<"firebase:authUser:", apiKey, ":[DEFAULT]">>

\* a payload whose token manager holds the two tokens in each other's place
CreateAuthDataSwapped(uid, apiKey, tokenResponse, userRecord, now) ==
  IF ~IsSome(tokenResponse) \/ ~IsSome(userRecord.metadata)
    THEN Throw(PlainError("TypeError"))
  ELSE
    LET t == The(tokenResponse)
        expiresIn == NumMul(ParseInt(Get(t, "expiresIn")), Some(1000))
        creationTime == Get(The(userRecord.metadata), "creationTime")
    IN Ok([fbase_key |-> FbaseKey(apiKey),
           value |->
             [uid |-> uid,
              email |-> OrElse(userRecord.email, "null"),
              emailVerified |-> userRecord.emailVerified = "true",
              isAnonymous |-> FALSE,
              providerData |->
                IF IsSome(userRecord.providerData)
                  THEN [i \in DOMAIN The(userRecord.providerData) |->
                          MapProvider(The(userRecord.providerData)[i])]
                  ELSE <<>>,
              stsTokenManager |->
                [accessToken |-> Get(t, "refreshToken"),
                 refreshToken |-> Get(t, "idToken"),
                 expirationTime |-> NumAdd(Some(now), expiresIn)],
              createdAt |->
                IF creationTime \in Falsy THEN NumToString(now)
                ELSE NumToString(DateGetTime(creationTime)),
              lastLoginAt |-> NumToString(now),
              apiKey |-> apiKey,
              appName |-> "[DEFAULT]"]])

\* createAuthData(uid, apiKey, tokenResponse, userRecord) with Date.now() = now.
\* tokenResponse is optional (the JSON body null) and userRecord.metadata is
\* optional: reading a property of either when absent throws a TypeError.
CreateAuthData(uid, apiKey, tokenResponse, userRecord, now) ==
  IF ~IsSome(tokenResponse) \/ ~IsSome(userRecord.metadata)
    THEN Throw(PlainError("TypeError"))
  ELSE
    LET t == The(tokenResponse)
        expiresIn == NumMul(ParseInt(Get(t, "expiresIn")), Some(1000))
        creationTime == Get(The(userRecord.metadata), "creationTime")
    IN Ok([fbase_key |-> FbaseKey(apiKey),
           value |->
             [uid |-> uid,
              email |-> OrElse(userRecord.email, "null"),
              emailVerified |-> userRecord.emailVerified = "true",
              isAnonymous |-> FALSE,
              providerData |->
                IF IsSome(userRecord.providerData)
                  THEN [i \in DOMAIN The(userRecord.providerData) |->
                          MapProvider(The(userRecord.providerData)[i])]
                  ELSE <<>>,
              stsTokenManager |->
                [accessToken |-> Get(t, "idToken"),
                 refreshToken |-> Get(t, "refreshToken"),
                 expirationTime |-> NumAdd(Some(now), expiresIn)],
              createdAt |->
                IF creationTime \in Falsy THEN NumToString(now)
                ELSE NumToString(DateGetTime(creationTime)),
              lastLoginAt |-> NumToString(now),
              apiKey |-> apiKey,
              appName |-> "[DEFAULT]"]])

\* ---------------------------------------------------------------- index.ts
\* the override written into the provider block itself:
\* Object.assign(providerConfig, config.profiles[options.profile])
ApplyProfileInPlace(config, providerConfig, profile) ==
  IF IsSome(profile) /\ The(profile) # "" /\ IsSome(config.profiles)
     /\ The(profile) \in DOMAIN The(config.profiles)
    THEN LET merged ==
               Spread(providerConfig, The(config.profiles)[The(profile)])
         IN [effective |-> merged, providerConfig |-> merged]
    ELSE [effective |-> providerConfig, providerConfig |-> providerConfig]

\* an override that takes the named profile as it is, defined or not: for a
\* profile the config does not define the effective config is empty
ApplyProfileUnchecked(config, providerConfig, profile) ==
  IF IsSome(profile) /\ The(profile) # ""
    THEN [effective |->
            IF IsSome(config.profiles)
               /\ The(profile) \in DOMAIN The(config.profiles)
              THEN Spread(providerConfig, The(config.profiles)[The(profile)])
              ELSE <<>>,
          providerConfig |-> providerConfig]
    ELSE [effective |-> providerConfig, providerConfig |-> providerConfig]

\* options.profile && config.profiles?.[options.profile]
\*   ? { ...providerConfig, ...config.profiles[options.profile] }
\*   : providerConfig
\* Yields the effective config, and the providerConfig object as the
\* expression leaves it (the spread copies: it is left as it was).
ApplyProfile(config, providerConfig, profile) ==
  IF IsSome(profile) /\ The(profile) # "" /\ IsSome(config.profiles)
     /\ The(profile) \in DOMAIN The(config.profiles)
    THEN [effective |->
            Spread(providerConfig, The(config.profiles)[The(profile)]),
          providerConfig |-> providerConfig]
    ELSE [effective |-> providerConfig, providerConfig |-> providerConfig]

\* injectAuth from the return of loadConfig to the call of provider.inject:
\* the strategy, the effective config handed to it and the loaded config
\* object as injectAuth leaves it; or what is thrown
SelectProvider(config, profile) ==
  LET p == GetProvider(config.provider) IN
  IF ~p.ok THEN Throw(The(p.err))
  ELSE IF ~IsSome(config[config.provider])
    THEN Throw(ConfigInvalidError(Some(config.provider)))
  ELSE LET a == ApplyProfile(config, The(config[config.provider]), profile)
       IN Ok([strategy |-> The(p.val), config |-> a.effective,
              loaded |-> [config EXCEPT
                            ![config.provider] = Some(a.providerConfig)]])

\* ---------------------------------------------------------------- the world

FirebaseBlock == [serviceAccount |-> "saGood", apiKey |-> "key1", uid |-> "u1"]

SupabaseBlock ==
  [url |-> "https://sb", anonKey |-> "anon", email |-> "a@b.com",
   password |-> "pw"]

\* profiles of the config file: alternate principals, and overrides that leave
\* uid empty, non-string or undefined
ProfilesBlock ==
  [n \in {"admin", "blank", "num", "undef", "sb"} |->
     CASE n = "admin" -> [uid |-> "u2"]
       [] n = "blank" -> [uid |-> ""]
       [] n = "num" -> [uid |-> "#42"]
       [] n = "undef" -> [uid |-> "#undefined"]
       [] OTHER -> [email |-> "x@y.com", password |-> "pw2"]]

MkConfig(provider, firebase, supabase, profiles) ==
  [provider |-> provider, firebase |-> firebase, supabase |-> supabase,
   profiles |-> profiles, debug |-> FALSE]

MkModule(throws, default) == [throws |-> throws, default |-> default]

\* one file at the first candidate path, holding module m
OneFile(m) == [p \in {Resolve(Cwd, CONFIG_FILE_NAMES[1])} |-> m]

\* a firebase config with both blocks and profiles
FullWorld ==
  OneFile(MkModule(FALSE, Some(MkConfig("firebase", Some(FirebaseBlock),
                                        Some(SupabaseBlock),
                                        Some(ProfilesBlock)))))

OverlapWorlds == {FullWorld}

\* The file systems the process may start in
Worlds ==
  { FullWorld,
    \* a firebase config without profiles and without a supabase block
    OneFile(MkModule(FALSE, Some(MkConfig("firebase", Some(FirebaseBlock),
                                          None, None)))),
    \* no candidate exists
    [p \in {} |-> MkModule(FALSE, None)],
    \* .js holds a supabase config, .mjs a firebase one: the first wins
    [p \in {Resolve(Cwd, CONFIG_FILE_NAMES[2]),
             Resolve(Cwd, CONFIG_FILE_NAMES[3])} |->
       IF p = Resolve(Cwd, CONFIG_FILE_NAMES[2])
         THEN MkModule(FALSE, Some(MkConfig("supabase", None,
                                            Some(SupabaseBlock),
                                            Some(ProfilesBlock))))
         ELSE MkModule(FALSE, Some(MkConfig("firebase", Some(FirebaseBlock),
                                            None, None)))],
    \* an unknown provider, a missing provider
    OneFile(MkModule(FALSE, Some(MkConfig("auth0", Some(FirebaseBlock),
                                          None, None)))),
    OneFile(MkModule(FALSE, Some(MkConfig(Undefined, Some(FirebaseBlock),
                                          None, None)))),
    \* the selected block is missing
    OneFile(MkModule(FALSE, Some(MkConfig("firebase", None,
                                          Some(SupabaseBlock), None)))),
    \* the selected block lacks its uid
    OneFile(MkModule(FALSE,
      Some(MkConfig("firebase",
                    Some([serviceAccount |-> "saGood", apiKey |-> "key1"]),
                    None, None)))),
    \* the import throws; the module has no default export
    OneFile(MkModule(TRUE, None)),
    OneFile(MkModule(FALSE, None)) }

\* The configs test code hands to provider.inject directly (typed FirebaseConfig)
DirectConfigs ==
  { [serviceAccount |-> sa, apiKey |-> "key1", uid |-> "u1"] :
      sa \in {"saGood", "saMalformed", "saBadKey"} }

\* The options the callers give injectAuth: no options, a waitAfter, the
\* profiles of the config file, and a profile it does not define
MkOptions(profile, waitAfter) == [profile |-> profile, waitAfter |-> waitAfter]
CallOptions ==
  { MkOptions(None, None), MkOptions(Some("admin"), Some(500)),
    MkOptions(Some("sb"), Some(0)), MkOptions(Some("ghost"), None),
    MkOptions(Some("blank"), None), MkOptions(Some("num"), None),
    MkOptions(Some("undef"), None) }

\* ---------------------------------------------------------------- state
VARIABLES
  fs,               \* the file system: existing config paths -> their modules
  cachedConfig,     \* config.ts: let cachedConfig (optional)
  adminInitialized, \* firebase.ts: let adminInitialized
  initCount,        \* history: how often admin.initializeApp has returned
  adminResets,      \* history: resetAdminInitialization calls made so far
  cacheClears,      \* history: clearConfigCache calls made so far
  started,          \* history: inject / injectAuth calls made so far
  clock,            \* what Date.now() returns; time passes between calls
  overlap,          \* whether the test code overlaps its calls (Promise.all)
                    \* or awaits each before making the next
  calls             \* per worker, its current call: position, locals, page, log

vars ==
  <<fs, cachedConfig, adminInitialized, initCount, adminResets, cacheClears,
    started, clock, overlap, calls>>

\* The callers of the process.  Each makes its calls one after another, every
\* call on a fresh page; the calls of different callers may overlap.
Calls == {1, 2}

\* The steps of FirebaseAuthProvider.inject, in the order of the source
StepOrder ==
  <<"init", "mint", "exchange", "lookup", "shape", "addInitScript", "goto",
    "waitForTimeout">>

Ev(step, ev) == [step |-> step, ev |-> ev]
Log(r, step, ev) == [r EXCEPT !.log = Append(@, Ev(step, ev))]

\* The browser side of a call's page: the database firebaseLocalStorageDb as
\* the page found it (db0) and as it is (db: absent, or its version and its
\* object stores, each a map from key to value), the state of the open
\* request of the injection script, what the script wrote to console.error,
\* and the exceptions its handlers threw. db0 is the database as the current
\* document found it, console and errors are those of the current document,
\* runs counts the documents in which the script has run.
NoBrowser ==
  [db0 |-> None, db |-> None, request |-> "none", console |-> <<>>,
   errors |-> <<>>, runs |-> 0]

IdleCall ==
  [pc |-> "idle", id |-> 0, entry |-> "none", profile |-> None, waitAfter |-> None,
   path |-> None, loaded |-> None, strategy |-> None, config |-> None,
   adminWas |-> FALSE, cwd |-> None, cacheWas |-> None, epoch |-> 0,
   arg |-> None,
   token |-> None, status |-> None, tokenResponse |-> None,
   userRecord |-> None, authData |-> None, script |-> None,
   gotoFailed |-> FALSE, browser |-> NoBrowser,
   waited |-> None, log |-> <<>>, outcome |-> "pending", error |-> None]

Reject(r, e) ==
  [r EXCEPT !.pc = "done", !.outcome = "rejected", !.error = Some(e)]
Fulfil(r) == [r EXCEPT !.pc = "done", !.outcome = "resolved"]

\* The process starts with an empty cache and an uninitialized admin SDK.
\* Overlapping calls are explored on the file systems that hold a loadable
\* config, calls made one after another on all of them.
Init ==
  /\ \/ overlap = FALSE /\ fs \in Worlds
     \/ overlap = TRUE /\ fs \in OverlapWorlds
  /\ cachedConfig = None
  /\ adminInitialized = FALSE
  /\ initCount = 0
  /\ adminResets = 0
  /\ cacheClears = 0
  /\ started = 0
  /\ clock = 1000
  /\ calls = [c \in Calls |-> IdleCall]

\* ---------------------------------------------------------------- handlers
\* What each continuation of the source does with the outcome of the call it
\* awaited: out is Ok(value) or Throw(what the collaborator threw).

UidOf(r) == Get(The(r.config), "uid")

\* loadConfig from the return of import() on: validate, or catch
LoadConfigImported(m) ==
  IF m.throws THEN Throw(LoadConfigCatch(PlainError("ImportError")))
  ELSE LET v == ValidateConfig(m.default) IN
    IF v.ok THEN Ok(The(v.val)) ELSE Throw(LoadConfigCatch(The(v.err)))

\* FirebaseAuthProvider.inject from its entry to the await of createCustomToken
InjectEnter(r, config, flag, appThrows) ==
  LET a == InitializeAdmin(flag, Get(config, "serviceAccount"), appThrows)
      r1 == Log([r EXCEPT !.config = Some(config), !.adminWas = flag],
                "init", "start")
  IN [flag |-> a.flag, ran |-> a.ran,
      call |-> IF a.res.ok
                 THEN [Log(Log(r1, "init", "ok"), "mint", "start")
                         EXCEPT !.pc = "mint"]
                 ELSE Reject(Log(r1, "init", "throw"), The(a.res.err))]

\* a Supabase strategy that does nothing and returns
SupabaseInjectResolves(r) == Fulfil(r)

\* SupabaseAuthProvider.inject
SupabaseInject(r) == Reject(r, ConfigInvalidError(Some("provider")))

\* a mint whose failure is logged and ignored: the exchange is sent anyway
AfterMintSwallowed(r, out) ==
  [Log(Log(r, "mint", IF out.ok THEN "ok" ELSE "throw"), "exchange", "start")
     EXCEPT !.pc = "fetch",
            !.token = Some([uid |-> Get(The(r.config), "uid"), n |-> r.id])]

\* a mint that keeps the first token of the process for every later call
AfterMintShared(r, out) ==
  IF out.ok
    THEN [Log(Log(r, "mint", "ok"), "exchange", "start")
            EXCEPT !.pc = "fetch",
                   !.token = Some([uid |-> "u1", n |-> 1])]
    ELSE Reject(Log(r, "mint", "throw"),
                AuthenticationError(CauseOf(The(out.err)),
                                    Some(Get(The(r.config), "uid"))))

\* a mint whose failure is reported without the principal and without cause
AfterMintUnnamed(r, out) ==
  IF out.ok
    THEN [Log(Log(r, "mint", "ok"), "exchange", "start")
            EXCEPT !.pc = "fetch",
                   !.token = Some([uid |-> Get(The(r.config), "uid"),
                                   n |-> r.id])]
    ELSE Reject(Log(r, "mint", "throw"), AuthenticationError(None, None))

\* a mint for the configured default principal, whatever uid the call has
AfterMintForDefault(r, out) ==
  IF out.ok
    THEN [Log(Log(r, "mint", "ok"), "exchange", "start")
            EXCEPT !.pc = "fetch", !.token = Some([uid |-> "u1", n |-> r.id])]
    ELSE Reject(Log(r, "mint", "throw"),
                AuthenticationError(CauseOf(The(out.err)),
                                    Some(Get(The(r.config), "uid"))))

\* createCustomToken returned or threw; on return the exchange POST is sent.
\* The token minted is fresh: it is named by its principal and its call.
AfterMint(r, out) ==
  IF out.ok
    THEN [Log(Log(r, "mint", "ok"), "exchange", "start")
            EXCEPT !.pc = "fetch",
                   !.token = Some([uid |-> UidOf(r), n |-> r.id])]
    ELSE Reject(Log(r, "mint", "throw"),
                AuthenticationError(CauseOf(The(out.err)), Some(UidOf(r))))

\* an exchange that sends its POST a second time when the first one failed
AfterFetchRetries(r, out) ==
  IF out.ok
    THEN [r EXCEPT !.status = out.val,
                   !.pc = IF The(out.val) \in 200..299 THEN "json" ELSE "text"]
  ELSE IF Len(r.log) < 6
    THEN Log(Log(r, "exchange", "throw"), "exchange", "start")
  ELSE Reject(Log(r, "exchange", "throw"),
              TokenExchangeError(None, CauseOf(The(out.err))))

\* fetch returned a response with the status out.val, or threw
AfterFetch(r, out) ==
  IF out.ok
    THEN [r EXCEPT !.status = out.val,
                   !.pc = IF The(out.val) \in 200..299 THEN "json" ELSE "text"]
    ELSE Reject(Log(r, "exchange", "throw"),
                TokenExchangeError(None, CauseOf(The(out.err))))

\* response.text() of a non-2xx response returned or threw
AfterText(r, out) ==
  IF out.ok
    THEN Reject(Log(r, "exchange", "throw"), TokenExchangeError(r.status, None))
    ELSE Reject(Log(r, "exchange", "throw"),
                TokenExchangeError(None, CauseOf(The(out.err))))

\* an unreadable 2xx body reported with the status of its response
AfterJsonWithStatus(r, out) ==
  IF out.ok
    THEN [Log(Log(r, "exchange", "ok"), "lookup", "start")
            EXCEPT !.pc = "lookup", !.tokenResponse = out.val]
    ELSE Reject(Log(r, "exchange", "throw"),
                TokenExchangeError(r.status, CauseOf(The(out.err))))

\* response.json() of a 2xx response returned the body out.val or threw; on
\* return getUser is called
AfterJson(r, out) ==
  IF out.ok
    THEN [Log(Log(r, "exchange", "ok"), "lookup", "start")
            EXCEPT !.pc = "lookup", !.tokenResponse = out.val]
    ELSE Reject(Log(r, "exchange", "throw"),
                TokenExchangeError(None, CauseOf(The(out.err))))

\* a lookup whose failure is reported as a failed exchange
AfterLookupAsExchange(r, out, now) ==
  IF ~out.ok
    THEN Reject(Log(r, "lookup", "throw"),
                TokenExchangeError(None, CauseOf(The(out.err))))
  ELSE
    LET r1 == Log(Log([r EXCEPT !.userRecord = out.val], "lookup", "ok"),
                  "shape", "start")
        d == CreateAuthData(Get(The(r.config), "uid"),
                            Get(The(r.config), "apiKey"),
                            The(r.tokenResponse), The(out.val), now)
    IN IF d.ok
         THEN [Log(Log(r1, "shape", "ok"), "addInitScript", "start")
                 EXCEPT !.pc = "register", !.authData = d.val]
         ELSE Reject(Log(r1, "shape", "throw"), The(d.err))

\* getUser returned or threw; on return createAuthData runs and addInitScript
\* is called with its result
AfterLookup(r, out, now) ==
  IF ~out.ok
    THEN Reject(Log(r, "lookup", "throw"),
                AuthenticationError(CauseOf(The(out.err)), Some(UidOf(r))))
  ELSE
    LET r1 == Log(Log([r EXCEPT !.userRecord = out.val], "lookup", "ok"),
                  "shape", "start")
        d == CreateAuthData(UidOf(r), Get(The(r.config), "apiKey"),
                            The(r.tokenResponse), The(out.val), now)
    IN IF d.ok
         THEN [Log(Log(r1, "shape", "ok"), "addInitScript", "start")
                 EXCEPT !.pc = "register", !.authData = d.val]
         ELSE Reject(Log(r1, "shape", "throw"), The(d.err))

\* a registration whose failure is tolerated the way the navigation's is
AfterRegisterSwallowed(r, out) ==
  [Log(Log(r, "addInitScript", IF out.ok THEN "ok" ELSE "throw"),
       "goto", "start")
     EXCEPT !.pc = "goto", !.script = IF out.ok THEN r.authData ELSE None]

\* page.addInitScript returned or threw; on return page.goto is called
AfterRegister(r, out) ==
  IF out.ok
    THEN [Log(Log(r, "addInitScript", "ok"), "goto", "start")
            EXCEPT !.pc = "goto", !.script = r.authData]
    ELSE Reject(Log(r, "addInitScript", "throw"),
                InjectionError(CauseOf(The(out.err))))

\* a navigation whose failure is fatal
AfterGotoFatal(r, out) ==
  IF out.ok
    THEN [Log(Log(r, "goto", "ok"), "waitForTimeout", "start")
            EXCEPT !.pc = "wait", !.waited = Some(WaitAfterOf(r.waitAfter))]
    ELSE Reject([Log(r, "goto", "throw") EXCEPT !.gotoFailed = TRUE],
                PlainError(The(out.err)))

\* a navigation whose failure ends the call at once, without the settle wait
AfterGotoSkipsWait(r, out) ==
  IF out.ok
    THEN [Log(Log(r, "goto", "ok"), "waitForTimeout", "start")
            EXCEPT !.pc = "wait", !.waited = Some(WaitAfterOf(r.waitAfter))]
    ELSE Fulfil([Log(r, "goto", "throw") EXCEPT !.gotoFailed = TRUE])

\* page.goto returned or threw: either way page.waitForTimeout is called
AfterGoto(r, out) ==
  [Log(Log(r, "goto", IF out.ok THEN "ok" ELSE "throw"),
       "waitForTimeout", "start")
     EXCEPT !.pc = "wait", !.gotoFailed = ~out.ok,
            !.waited = Some(WaitAfterOf(r.waitAfter))]

\* an inject that navigates again when page.waitForTimeout threw
AfterWaitRetries(r, out) ==
  IF out.ok THEN Fulfil(Log(r, "waitForTimeout", "ok"))
  ELSE [r EXCEPT !.pc = "goto", !.log = SubSeq(r.log, 1, Len(r.log) - 2),
                 !.gotoFailed = FALSE, !.waited = None]

\* page.waitForTimeout returned or threw
AfterWait(r, out) ==
  IF out.ok THEN Fulfil(Log(r, "waitForTimeout", "ok"))
  ELSE Reject(Log(r, "waitForTimeout", "throw"), PlainError(The(out.err)))

\* ---------------------------------------------------------------- collaborators
\* The HTTP statuses the token-exchange endpoint answers with
Statuses == {200, 400, 503}

IdToken(n) == "T" \o ToString(n)
RefreshToken(n) == "R" \o ToString(n)

\* The JSON bodies of a 2xx response to the exchange of token tk: the full
\* session, a body without idToken and with a malformed lifetime, and null
Bodies(tk) ==
  { Some([idToken |-> IdToken(tk.n), refreshToken |-> RefreshToken(tk.n),
          expiresIn |-> "3600"]),
    Some([refreshToken |-> RefreshToken(tk.n), expiresIn |-> "soon"]),
    None }

\* The identity provider's user database: the record getUser returns for uid.
\* u1 has a full profile, every other principal one lacking each optional field.
Users(uid) ==
  IF uid = "u1"
    THEN { [uid |-> uid, email |-> "a@b.com", emailVerified |-> "true",
            providerData |->
              Some(<<[providerId |-> "password", uid |-> "a@b.com",
                      email |-> "a@b.com"]>>),
            metadata |->
              Some([creationTime |-> "Thu, 01 Jan 1970 00:00:01 GMT"])] }
    ELSE { [uid |-> uid, email |-> Undefined, emailVerified |-> Undefined,
            providerData |-> None,
            metadata |-> Some([creationTime |-> Undefined])] }

\* what an awaited collaborator call may do: return one of vals, or throw e
Outcomes(vals, e) == {Ok(v) : v \in vals} \cup {Throw(e)}

\* ---------------------------------------------------------------- actions
SetCall(c, r) == calls' = [calls EXCEPT ![c] = r]

\* caller c may make a call.  Awaiting each call, caller 1 makes MaxCalls
\* calls one after another; overlapping, each caller makes one call, caller 1
\* the first.
MayStart(c) ==
  /\ started < MaxCalls
  /\ IF overlap
       THEN /\ calls[c].pc = "idle"
            /\ IF c = 1 THEN TRUE ELSE calls[1].pc # "idle"
       ELSE c = 1 /\ calls[c].pc \in {"idle", "done"}

\* injectAuth(page, {profile, waitAfter}) up to the first await: loadConfig
\* answers from the cache, fails to find a file, or starts the import
InjectAuthCall(c) ==
  /\ MayStart(c)
  /\ started' = started + 1
  /\ clock' = clock + 1000
  /\ \E o \in CallOptions :
       LET r == [IdleCall EXCEPT !.id = started + 1, !.entry = "injectAuth",
                                 !.profile = o.profile,
                                 !.waitAfter = o.waitAfter]
           path == FindConfigPath(fs, Cwd)
       IN IF IsSome(cachedConfig)
            THEN SetCall(c, [r EXCEPT !.pc = "loaded", !.loaded = cachedConfig])
          ELSE IF ~IsSome(path)
            THEN SetCall(c, Reject(r, ConfigNotFoundError(SearchPaths(Cwd))))
          ELSE SetCall(c, [r EXCEPT !.pc = "import", !.path = path])
  /\ UNCHANGED <<fs, cachedConfig, adminInitialized, initCount, adminResets,
                 cacheClears,
                 overlap>>

\* the import of loadConfig settles: validate and fill the cache, or reject
ImportDone(c) ==
  /\ calls[c].pc = "import"
  /\ LET v == LoadConfigImported(fs[The(calls[c].path)]) IN
       IF v.ok
         THEN /\ cachedConfig' = v.val
              /\ SetCall(c, [calls[c] EXCEPT !.pc = "loaded", !.loaded = v.val])
         ELSE /\ SetCall(c, Reject(calls[c], The(v.err)))
              /\ UNCHANGED cachedConfig
  /\ UNCHANGED <<fs, adminInitialized, initCount, adminResets,
                 cacheClears, started,
                 clock, overlap>>

\* provider.inject(page, config, options) entered with the process state.
\* admin.initializeApp throws when the default app exists already: always once
\* this process has created it, and possibly before (other code created it).
EnterInject(c, r, config) ==
  \E appThrows \in (IF initCount > 0 THEN {TRUE} ELSE BOOLEAN) :
    LET e == InjectEnter(r, config, adminInitialized, appThrows) IN
      /\ adminInitialized' = e.flag
      /\ initCount' = IF e.ran THEN initCount + 1 ELSE initCount
      /\ SetCall(c, e.call)

\* injectAuth after loadConfig returned: select the provider, apply the
\* profile, call provider.inject.  The config injectAuth holds is the cached
\* object itself: what injectAuth does to it, it does to the cache.
Continue(c) ==
  /\ calls[c].pc = "loaded"
  /\ LET sel == SelectProvider(The(calls[c].loaded), calls[c].profile) IN
       IF ~sel.ok
         THEN /\ SetCall(c, Reject(calls[c], The(sel.err)))
              /\ UNCHANGED <<adminInitialized, initCount, cachedConfig>>
       ELSE
         LET r == [calls[c] EXCEPT !.strategy = Some(The(sel.val).strategy),
                                   !.loaded = Some(The(sel.val).loaded)]
         IN /\ cachedConfig' = IF cachedConfig = calls[c].loaded
                                 THEN Some(The(sel.val).loaded)
                                 ELSE cachedConfig
            /\ IF The(sel.val).strategy = "SupabaseAuthProvider"
                 THEN /\ SetCall(c, SupabaseInject(
                             [r EXCEPT !.config = Some(The(sel.val).config)]))
                      /\ UNCHANGED <<adminInitialized, initCount>>
                 ELSE EnterInject(c, r, The(sel.val).config)
  /\ UNCHANGED <<fs, adminResets, cacheClears, started, clock, overlap>>

\* new FirebaseAuthProvider().inject(page, config, {waitAfter}) called directly
InjectCall(c) ==
  /\ MayStart(c)
  /\ started' = started + 1
  /\ clock' = clock + 1000
  /\ \E config \in DirectConfigs :
       EnterInject(c, [IdleCall EXCEPT !.id = started + 1, !.entry = "inject",
                                       !.strategy = Some("FirebaseAuthProvider")],
                   config)
  /\ UNCHANGED <<fs, cachedConfig, adminResets, cacheClears, overlap>>

\* admin.auth().createCustomToken(uid) settles; the SDK mints for a non-empty
\* string uid only
MintDone(c) ==
  /\ calls[c].pc = "mint"
  /\ \E out \in Outcomes(IF BadString(UidOf(calls[c])) THEN {} ELSE {"token"},
                           "MintError") :
       SetCall(c, AfterMint(calls[c], out))
  /\ UNCHANGED <<fs, cachedConfig, adminInitialized, initCount, adminResets,
                 cacheClears,
                 started, clock, overlap>>

FetchDone(c) ==
  /\ calls[c].pc = "fetch"
  /\ \E out \in Outcomes(Statuses, "FetchError") :
       SetCall(c, AfterFetch(calls[c], out))
  /\ UNCHANGED <<fs, cachedConfig, adminInitialized, initCount, adminResets,
                 cacheClears,
                 started, clock, overlap>>

TextDone(c) ==
  /\ calls[c].pc = "text"
  /\ \E out \in Outcomes({"body"}, "BodyError") :
       SetCall(c, AfterText(calls[c], out))
  /\ UNCHANGED <<fs, cachedConfig, adminInitialized, initCount, adminResets,
                 cacheClears,
                 started, clock, overlap>>

JsonDone(c) ==
  /\ calls[c].pc = "json"
  /\ \E out \in Outcomes(Bodies(The(calls[c].token)), "BodyError") :
       SetCall(c, AfterJson(calls[c], out))
  /\ UNCHANGED <<fs, cachedConfig, adminInitialized, initCount, adminResets,
                 cacheClears,
                 started, clock, overlap>>

LookupDone(c) ==
  /\ calls[c].pc = "lookup"
  /\ \E out \in Outcomes(Users(UidOf(calls[c])), "LookupError") :
       SetCall(c, AfterLookup(calls[c], out, clock))
  /\ UNCHANGED <<fs, cachedConfig, adminInitialized, initCount, adminResets,
                 cacheClears,
                 started, clock, overlap>>

RegisterDone(c) ==
  /\ calls[c].pc = "register"
  /\ \E out \in Outcomes({"void"}, "ScriptError") :
       SetCall(c, AfterRegister(calls[c], out))
  /\ UNCHANGED <<fs, cachedConfig, adminInitialized, initCount, adminResets,
                 cacheClears,
                 started, clock, overlap>>

GotoDone(c) ==
  /\ calls[c].pc = "goto"
  /\ \E out \in Outcomes({"response"}, "GotoError") :
       SetCall(c, AfterGoto(calls[c], out))
  /\ UNCHANGED <<fs, cachedConfig, adminInitialized, initCount, adminResets,
                 cacheClears,
                 started, clock, overlap>>

WaitDone(c) ==
  /\ calls[c].pc = "wait"
  /\ \E out \in Outcomes({"void"}, "WaitError") :
       SetCall(c, AfterWait(calls[c], out))
  /\ UNCHANGED <<fs, cachedConfig, adminInitialized, initCount, adminResets,
                 cacheClears,
                 started, clock, overlap>>

\* The test code resets the process state between tests: when no call is in
\* flight
Quiescent == \A c \in Calls : calls[c].pc \in {"idle", "done"}

\* resetAdminInitialization()
ResetAdminInitialization ==
  /\ Quiescent
  /\ adminResets + cacheClears < MaxResets
  /\ adminResets' = adminResets + 1
  /\ adminInitialized' = FALSE
  /\ UNCHANGED <<fs, cachedConfig, initCount, cacheClears, started, clock,
                 overlap, calls>>

\* clearConfigCache()
ClearConfigCache ==
  /\ Quiescent
  /\ adminResets + cacheClears < MaxResets
  /\ cacheClears' = cacheClears + 1
  /\ cachedConfig' = None
  /\ UNCHANGED <<fs, adminInitialized, initCount, adminResets, started, clock,
                 overlap, calls>>

Next ==
  \/ \E c \in Calls : InjectAuthCall(c)
  \/ \E c \in Calls : ImportDone(c)
  \/ \E c \in Calls : Continue(c)
  \/ \E c \in Calls : InjectCall(c)
  \/ \E c \in Calls : MintDone(c)
  \/ \E c \in Calls : FetchDone(c)
  \/ \E c \in Calls : TextDone(c)
  \/ \E c \in Calls : JsonDone(c)
  \/ \E c \in Calls : LookupDone(c)
  \/ \E c \in Calls : RegisterDone(c)
  \/ \E c \in Calls : GotoDone(c)
  \/ \E c \in Calls : WaitDone(c)
  \/ ResetAdminInitialization
  \/ ClearConfigCache

Spec == Init /\ [][Next]_vars

\* The process on the file system with the full config, every collaborator
\* call of a call in flight settling eventually: the promise injectAuth or
\* inject awaits is settled by its collaborator, and the continuation after
\* an await is run by the job queue of the runtime.  At most one of these
\* steps is enabled for a call at a time.
InitLive == Init /\ fs = FullWorld

Returns(c) ==
  \/ ImportDone(c) \/ Continue(c) \/ MintDone(c) \/ FetchDone(c)
  \/ TextDone(c) \/ JsonDone(c) \/ LookupDone(c) \/ RegisterDone(c)
  \/ GotoDone(c) \/ WaitDone(c)

\* the test code makes injectAuth calls only
NextLive ==
  \/ \E c \in Calls : InjectAuthCall(c)
  \/ \E c \in Calls : Returns(c)

SpecLive ==
  InitLive /\ [][NextLive]_vars /\ \A c \in Calls : WF_vars(Returns(c))

\* ---------------------------------------------------------------- loadConfig
\* loadConfig(cwd) called by test code, with the file systems and the
\* working directories that tell its cases apart.

\* the block b without its field f
Without(b, f) == [g \in (DOMAIN b) \ {f} |-> b[g]]

\* the block b with its field f missing, empty, or not a string
Spoilt(b, f) ==
  {Without(b, f), [b EXCEPT ![f] = ""], [b EXCEPT ![f] = "#42"]}

GoodFirebase ==
  MkConfig("firebase", Some(FirebaseBlock), Some(SupabaseBlock),
           Some(ProfilesBlock))
GoodSupabase == MkConfig("supabase", None, Some(SupabaseBlock), None)

\* The default exports of the config files: the two good ones, ones with a
\* missing or unknown provider, ones whose selected block has one spoilt
\* field (or several), and ones whose other block is spoilt
LoadConfigs ==
  {GoodFirebase, GoodSupabase}
    \cup {MkConfig(p, Some(FirebaseBlock), Some(SupabaseBlock), None) :
            p \in {Undefined, "", "auth0", "#42", "constructor"}}
    \cup {MkConfig("firebase", Some(b), None, None) :
            b \in UNION {Spoilt(FirebaseBlock, f) : f \in DOMAIN FirebaseBlock}}
    \cup {MkConfig("supabase", None, Some(b), None) :
            b \in UNION {Spoilt(SupabaseBlock, f) : f \in DOMAIN SupabaseBlock}}
    \cup {MkConfig("firebase", Some([apiKey |-> "#42"]), None, None),
          MkConfig("firebase", Some(FirebaseBlock), Some([url |-> ""]), None),
          MkConfig("supabase", Some([uid |-> "#42"]), Some(SupabaseBlock),
                   None)}

\* The directories loadConfig is given: process.cwd(), another directory, a
\* directory relative to process.cwd(), a directory without any candidate
LoadDirs == {"/proj", "/other", "sub", "/empty"}

\* The file systems: one config file in process.cwd(); and several
\* candidates in several directories
LoadWorlds ==
  {OneFile(MkModule(FALSE, Some(cfg))) : cfg \in LoadConfigs}
    \cup
  { [p \in {Resolve("/proj", CONFIG_FILE_NAMES[1]),
            Resolve("/other", CONFIG_FILE_NAMES[2]),
            Resolve("/other", CONFIG_FILE_NAMES[3]),
            Resolve("sub", CONFIG_FILE_NAMES[1]),
            Resolve("sub", CONFIG_FILE_NAMES[3])} |->
       IF p = Resolve("/proj", CONFIG_FILE_NAMES[1])
         THEN MkModule(FALSE, Some(GoodFirebase))
       ELSE IF p = Resolve("/other", CONFIG_FILE_NAMES[2])
         THEN MkModule(FALSE, Some(GoodSupabase))
       ELSE IF p = Resolve("/other", CONFIG_FILE_NAMES[3])
         THEN MkModule(FALSE, Some(GoodFirebase))
       ELSE IF p = Resolve("sub", CONFIG_FILE_NAMES[1])
         THEN MkModule(TRUE, None)
       ELSE MkModule(FALSE, Some(GoodSupabase))],
    [p \in {Resolve("/proj", CONFIG_FILE_NAMES[2]),
            Resolve("/proj", CONFIG_FILE_NAMES[3]),
            Resolve("/other", CONFIG_FILE_NAMES[3])} |->
       IF p = Resolve("/proj", CONFIG_FILE_NAMES[2])
         THEN MkModule(FALSE, Some(GoodFirebase))
       ELSE IF p = Resolve("/proj", CONFIG_FILE_NAMES[3])
         THEN MkModule(FALSE, None)
       ELSE MkModule(FALSE, Some(GoodSupabase))] }

\* a loadConfig that does not look at the cache
LoadConfigEnterUncached(r, cwd, cache, files) ==
  LET r1 == [r EXCEPT !.cwd = Some(cwd), !.cacheWas = cache]
      path == FindConfigPath(files, cwd)
  IN IF ~IsSome(path)
       THEN Reject(Log(r1, "findConfigPath", "none"),
                   ConfigNotFoundError(SearchPaths(cwd)))
     ELSE [Log(Log(r1, "findConfigPath", "ok"), "import", "start")
             EXCEPT !.pc = "import", !.path = path]

\* loadConfig(cwd) up to its await, with the cache and the files as given
LoadConfigEnter(r, cwd, cache, files) ==
  LET r1 == [r EXCEPT !.cwd = Some(cwd), !.cacheWas = cache]
      path == FindConfigPath(files, cwd)
  IN IF IsSome(cache) THEN Fulfil([r1 EXCEPT !.loaded = cache])
     ELSE IF ~IsSome(path)
       THEN Reject(Log(r1, "findConfigPath", "none"),
                   ConfigNotFoundError(SearchPaths(cwd)))
     ELSE [Log(Log(r1, "findConfigPath", "ok"), "import", "start")
             EXCEPT !.pc = "import", !.path = path]

\* a loadConfig that returns what it loaded without caching it
LoadConfigSettleUnstored(r, m) ==
  LET v == LoadConfigImported(m)
      r1 == Log(r, "import", IF m.throws THEN "throw" ELSE "ok")
  IN IF v.ok
       THEN [stored |-> None,
             call |-> Fulfil([Log(r1, "validateConfig", "ok")
                                EXCEPT !.loaded = v.val])]
     ELSE [stored |-> None,
           call |-> Reject(IF m.throws THEN r1
                           ELSE Log(r1, "validateConfig", "throw"),
                           The(v.err))]

\* a loadConfig that caches the default export before it validates it
LoadConfigSettleStoresFirst(r, m) ==
  LET v == LoadConfigImported(m)
      r1 == Log(r, "import", IF m.throws THEN "throw" ELSE "ok")
  IN IF v.ok
       THEN [stored |-> v.val,
             call |-> Fulfil([Log(r1, "validateConfig", "ok")
                                EXCEPT !.loaded = v.val])]
     ELSE [stored |-> IF m.throws THEN None ELSE m.default,
           call |-> Reject(IF m.throws THEN r1
                           ELSE Log(r1, "validateConfig", "throw"),
                           The(v.err))]

\* loadConfig from the return of import() on: what it stores in the cache
\* (nothing when it throws) and how the call ends
LoadConfigSettle(r, m) ==
  LET v == LoadConfigImported(m)
      r1 == Log(r, "import", IF m.throws THEN "throw" ELSE "ok")
  IN IF v.ok
       THEN [stored |-> v.val,
             call |-> Fulfil([Log(r1, "validateConfig", "ok")
                                EXCEPT !.loaded = v.val])]
     ELSE [stored |-> None,
           call |-> Reject(IF m.throws THEN r1
                           ELSE Log(r1, "validateConfig", "throw"),
                           The(v.err))]

InitLoad ==
  /\ overlap \in BOOLEAN
  /\ fs \in LoadWorlds
  /\ cachedConfig = None
  /\ adminInitialized = FALSE
  /\ initCount = 0
  /\ adminResets = 0
  /\ cacheClears = 0
  /\ started = 0
  /\ clock = 1000
  /\ calls = [c \in Calls |-> IdleCall]

\* loadConfig(cwd) is called
LoadConfigCall(c) ==
  /\ MayStart(c)
  /\ started' = started + 1
  /\ \E cwd \in LoadDirs :
       SetCall(c, LoadConfigEnter(
                    [IdleCall EXCEPT !.id = started + 1,
                                     !.entry = "loadConfig",
                                     !.epoch = cacheClears],
                    cwd, cachedConfig, fs))
  /\ UNCHANGED <<fs, cachedConfig, adminInitialized, initCount, adminResets,
                 cacheClears, clock, overlap>>

\* the import of a loadConfig call settles
LoadImportDone(c) ==
  /\ calls[c].pc = "import"
  /\ LET e == LoadConfigSettle(calls[c], fs[The(calls[c].path)]) IN
       /\ cachedConfig' = IF IsSome(e.stored) THEN e.stored ELSE cachedConfig
       /\ SetCall(c, e.call)
  /\ UNCHANGED <<fs, adminInitialized, initCount, adminResets, cacheClears,
                 started, clock, overlap>>

NextLoad ==
  \/ \E c \in Calls : LoadConfigCall(c)
  \/ \E c \in Calls : LoadImportDone(c)
  \/ ClearConfigCache

SpecLoad == InitLoad /\ [][NextLoad]_vars

\* ---------------------------------------------------------------- units
\* provider.validateConfig(raw) and getProvider(name) called by test code,
\* once per run, on every input of the sets below.

\* The provider blocks handed to validateConfig: every subset of the fields
\* of a valid block, each field valid, empty, a number or undefined
RawBlocks(good) ==
  UNION { { [f \in S |-> IF pick[f] = "ok" THEN good[f] ELSE pick[f]] :
              pick \in [S -> {"ok", "", "#42", "#undefined"}] } :
          S \in SUBSET DOMAIN good }

\* and null / undefined
RawConfigs(good) == {None} \cup {Some(b) : b \in RawBlocks(good)}

\* The names handed to getProvider: the registered ones, unknown ones, and
\* names of properties every object inherits
ProviderNames ==
  {"firebase", "supabase", "auth0", "", Undefined, "constructor", "toString"}

\* how a synchronous call ends: it returns res.val or throws res.err
Settle(r, res) ==
  IF res.ok THEN Fulfil([r EXCEPT !.loaded = res.val])
  ELSE Reject(r, The(res.err))

\* provider.validateConfig(raw) is called
ValidateConfigCall(c) ==
  /\ calls[c].pc = "idle" /\ started = 0
  /\ started' = started + 1
  /\ \E name \in DOMAIN providers :
       \E raw \in RawConfigs(IF name = "firebase" THEN FirebaseBlock
                              ELSE SupabaseBlock) :
         SetCall(c, Settle([IdleCall EXCEPT !.id = 1,
                                            !.entry = "validateConfig",
                                            !.strategy = Some(providers[name]),
                                            !.arg = raw],
                           ProviderValidateConfig(providers[name], raw)))
  /\ UNCHANGED <<fs, cachedConfig, adminInitialized, initCount, adminResets,
                 cacheClears, clock, overlap>>

\* getProvider(name) is called
GetProviderCall(c) ==
  /\ calls[c].pc = "idle" /\ started = 0
  /\ started' = started + 1
  /\ \E name \in ProviderNames :
       SetCall(c, Settle([IdleCall EXCEPT !.id = 1, !.entry = "getProvider",
                                          !.arg = Some(name)],
                         GetProvider(name)))
  /\ UNCHANGED <<fs, cachedConfig, adminInitialized, initCount, adminResets,
                 cacheClears, clock, overlap>>

\* The user records handed to createAuthData: each optional field of the
\* profile present or missing, no linked identity, an empty list, or one
\* identity with each of its optional fields present or missing
UserRecords ==
  { [uid |-> "u1", email |-> email, emailVerified |-> verified,
     providerData |-> linked, metadata |-> Some([creationTime |-> created])] :
      email \in {"a@b.com", Undefined},
      verified \in {"true", "false", Undefined},
      linked \in {None, Some(<<>>)} \cup
        { Some(<<[f \in {"providerId", "uid"} \cup S |->
                    IF f = "providerId" THEN "password" ELSE "x"]>>) :
            S \in SUBSET {"displayName", "email", "phoneNumber", "photoURL"} },
      created \in {"Thu, 01 Jan 1970 00:00:01 GMT", Undefined} }

\* createAuthData(uid, apiKey, tokenResponse, userRecord) is called with a
\* full session and the record u
CreateAuthDataCall(c) ==
  /\ calls[c].pc = "idle" /\ started = 0
  /\ started' = started + 1
  /\ \E u \in UserRecords :
       LET r == [IdleCall EXCEPT !.id = 1, !.entry = "createAuthData",
                                 !.userRecord = Some(u)]
           d == CreateAuthData("u1", "key1",
                               Some([idToken |-> IdToken(1),
                                     refreshToken |-> RefreshToken(1),
                                     expiresIn |-> "3600"]),
                               u, clock)
       IN SetCall(c, IF d.ok THEN Fulfil([r EXCEPT !.authData = d.val])
                     ELSE Reject(r, The(d.err)))
  /\ UNCHANGED <<fs, cachedConfig, adminInitialized, initCount, adminResets,
                 cacheClears, clock, overlap>>

InitUnits ==
  /\ overlap = FALSE
  /\ fs = FullWorld
  /\ cachedConfig = None
  /\ adminInitialized = FALSE
  /\ initCount = 0
  /\ adminResets = 0
  /\ cacheClears = 0
  /\ started = 0
  /\ clock = 1000
  /\ calls = [c \in Calls |-> IdleCall]

NextUnits ==
  \/ \E c \in Calls : ValidateConfigCall(c)
  \/ \E c \in Calls : GetProviderCall(c)
  \/ \E c \in Calls : CreateAuthDataCall(c)

SpecUnits == InitUnits /\ [][NextUnits]_vars

\* ---------------------------------------------------------------- browser
\* FirebaseAuthProvider.inject called directly on pages whose browser already
\* holds, or does not hold, a database firebaseLocalStorageDb; the injection
\* script runs in the page when the navigation of inject creates a document.

\* The databases a page starts with: none, version 1 with the store (empty, or
\* holding an earlier session under the key), version 1 without the store,
\* and a later version
InitialDbs ==
  { None,
    Some([version |-> 1, stores |-> [n \in {"firebaseLocalStorage"} |-> <<>>]]),
    Some([version |-> 1,
          stores |-> [n \in {"firebaseLocalStorage"} |->
                        [k \in {FbaseKey("key1")} |-> "stale"]]]),
    Some([version |-> 1, stores |-> [n \in {"other"} |-> <<>>]]),
    Some([version |-> 2, stores |-> [n \in {"firebaseLocalStorage"} |-> <<>>]]) }

\* request.onupgradeneeded on the database being upgraded
OnUpgradeNeeded(b) ==
  LET db == The(b.db) IN
  IF "firebaseLocalStorage" \in DOMAIN db.stores THEN b
  ELSE [b EXCEPT !.db =
          Some([db EXCEPT !.stores =
                  [n \in DOMAIN db.stores \cup {"firebaseLocalStorage"} |->
                     IF n = "firebaseLocalStorage" THEN <<>>
                     ELSE db.stores[n]]])]

\* request.onsuccess: db.transaction throws NotFoundError when the database
\* has no store of that name; otherwise store.put(value, key)
OnSuccess(b, authData) ==
  LET db == The(b.db) IN
  IF "firebaseLocalStorage" \notin DOMAIN db.stores
    THEN [b EXCEPT !.errors = Append(@, "NotFoundError")]
  ELSE
    LET store == db.stores["firebaseLocalStorage"] IN
    [b EXCEPT !.db =
       Some([db EXCEPT !.stores["firebaseLocalStorage"] =
               [k \in DOMAIN store \cup {authData.fbase_key} |->
                  IF k = authData.fbase_key THEN authData.value
                  ELSE store[k]]])]

\* request.onerror that throws the error instead of logging it
OnErrorThrows(b, err) == [b EXCEPT !.errors = Append(@, err)]

\* request.onerror: console.error('IndexedDB open error:', error)
OnError(b, err) == [b EXCEPT !.console = Append(@, err)]

\* inject is called on a fresh page whose browser holds the database db
BrowserInjectCall(c) ==
  /\ MayStart(c)
  /\ started' = started + 1
  /\ clock' = clock + 1000
  /\ \E config \in DirectConfigs, db \in InitialDbs :
       EnterInject(c, [IdleCall EXCEPT !.id = started + 1, !.entry = "inject",
                                       !.strategy = Some("FirebaseAuthProvider"),
                                       !.browser.db0 = db, !.browser.db = db],
                   config)
  /\ UNCHANGED <<fs, cachedConfig, adminResets, cacheClears, overlap>>

\* the navigation of page.goto commits: the new document runs the registered
\* script before any script of the page, and the script opens the database
Commit(c) ==
  /\ calls[c].pc = "goto"
  /\ calls[c].browser.request = "none"
  /\ SetCall(c, [calls[c] EXCEPT !.browser.request = "pending",
                                 !.browser.runs = 1])
  /\ UNCHANGED <<fs, cachedConfig, adminInitialized, initCount, adminResets,
                 cacheClears, started, clock, overlap>>

\* page.goto settles: it returns only for a navigation that committed
BrowserGotoDone(c) ==
  /\ calls[c].pc = "goto"
  /\ \E out \in Outcomes(IF calls[c].browser.request = "none" THEN {}
                           ELSE {"response"}, "GotoError") :
       SetCall(c, AfterGoto(calls[c], out))
  /\ UNCHANGED <<fs, cachedConfig, adminInitialized, initCount, adminResets,
                 cacheClears, started, clock, overlap>>

\* the browser creates the absent database at version 1 and fires
\* upgradeneeded
OpenUpgrade(c) ==
  /\ calls[c].browser.request = "pending"
  /\ calls[c].browser.db = None
  /\ SetCall(c, [calls[c] EXCEPT !.browser =
                   [OnUpgradeNeeded(
                      [@ EXCEPT !.db = Some([version |-> 1, stores |-> <<>>])])
                      EXCEPT !.request = "upgraded"]])
  /\ UNCHANGED <<fs, cachedConfig, adminInitialized, initCount, adminResets,
                 cacheClears, started, clock, overlap>>

\* the browser fires success: after the upgrade, or at once for a database
\* that is at version 1 already
OpenSuccess(c) ==
  /\ LET b == calls[c].browser IN
       \/ b.request = "upgraded"
       \/ b.request = "pending" /\ IsSome(b.db) /\ The(b.db).version = 1
  /\ SetCall(c, [calls[c] EXCEPT !.browser =
                   [OnSuccess(@, The(calls[c].script))
                      EXCEPT !.request = "success"]])
  /\ UNCHANGED <<fs, cachedConfig, adminInitialized, initCount, adminResets,
                 cacheClears, started, clock, overlap>>

\* the browser fires error: the database is at a later version than the one
\* asked for (VersionError), or the storage fails (UnknownError)
OpenError(c) ==
  /\ calls[c].browser.request = "pending"
  /\ LET b == calls[c].browser
         err == IF IsSome(b.db) /\ The(b.db).version > 1 THEN "VersionError"
                ELSE "UnknownError"
     IN SetCall(c, [calls[c] EXCEPT !.browser =
                      [OnError(b, err) EXCEPT !.request = "error"]])
  /\ UNCHANGED <<fs, cachedConfig, adminInitialized, initCount, adminResets,
                 cacheClears, started, clock, overlap>>

\* What the application of the page has written under the key of the session
\* by the time the page navigates again: nothing, or its own value (it owns
\* the store the script puts to)
PageWrites(db, key, wrote) ==
  IF ~wrote \/ db = None \/ "firebaseLocalStorage" \notin DOMAIN The(db).stores
    THEN db
  ELSE
    LET store == The(db).stores["firebaseLocalStorage"] IN
    Some([The(db) EXCEPT !.stores["firebaseLocalStorage"] =
            [k \in DOMAIN store \cup {key} |->
               IF k = key THEN "app" ELSE store[k]]])

\* A script registered with page.addInitScript runs in every document the
\* page creates: after inject has returned, the test navigates again and the
\* script opens the database once more, in a new document
Navigate(c) ==
  /\ calls[c].pc = "done"
  /\ calls[c].browser.request \in {"success", "error"}
  /\ calls[c].browser.runs < MaxRuns
  /\ \E wrote \in BOOLEAN :
       LET b == calls[c].browser
           db == PageWrites(b.db, The(calls[c].script).fbase_key, wrote)
       IN SetCall(c, [calls[c] EXCEPT !.browser =
                        [b EXCEPT !.request = "pending", !.db0 = db, !.db = db,
                                  !.console = <<>>, !.errors = <<>>,
                                  !.runs = b.runs + 1]])
  /\ UNCHANGED <<fs, cachedConfig, adminInitialized, initCount, adminResets,
                 cacheClears, started, clock, overlap>>

InitBrowser ==
  /\ overlap = FALSE
  /\ fs = FullWorld
  /\ cachedConfig = None
  /\ adminInitialized = FALSE
  /\ initCount = 0
  /\ adminResets = 0
  /\ cacheClears = 0
  /\ started = 0
  /\ clock = 1000
  /\ calls = [c \in Calls |-> IdleCall]

NextBrowser ==
  \/ \E c \in Calls : BrowserInjectCall(c)
  \/ \E c \in Calls : MintDone(c)
  \/ \E c \in Calls : FetchDone(c)
  \/ \E c \in Calls : TextDone(c)
  \/ \E c \in Calls : JsonDone(c)
  \/ \E c \in Calls : LookupDone(c)
  \/ \E c \in Calls : RegisterDone(c)
  \/ \E c \in Calls : Commit(c)
  \/ \E c \in Calls : BrowserGotoDone(c)
  \/ \E c \in Calls : WaitDone(c)
  \/ \E c \in Calls : OpenUpgrade(c)
  \/ \E c \in Calls : OpenSuccess(c)
  \/ \E c \in Calls : OpenError(c)
  \/ \E c \in Calls : Navigate(c)

SpecBrowser == InitBrowser /\ [][NextBrowser]_vars

\* ---------------------------------------------------------------- properties
\* What a call's log says of a step
Started(r, step) ==
  \E i \in DOMAIN r.log : r.log[i].ev = "start" /\ r.log[i].step = step
Returned(r, step) ==
  \E i \in DOMAIN r.log : r.log[i].ev = "ok" /\ r.log[i].step = step
Threw(r, step) ==
  \E i \in DOMAIN r.log : r.log[i].ev = "throw" /\ r.log[i].step = step
\* the position of each step in StepOrder
StepIndex ==
  [step \in {StepOrder[k] : k \in DOMAIN StepOrder} |->
     CHOOSE k \in DOMAIN StepOrder : StepOrder[k] = step]
\* the last event of a call's log (of an empty log: none)
LastEvent(r) ==
  IF r.log = <<>> THEN Ev("none", "none") ELSE r.log[Len(r.log)]

\* The config file's default export as loadConfig validated it
FileConfig == The(fs[The(FindConfigPath(fs, Cwd))].default)

\* a service-account blob that JSON.parse or credential.cert refuses
BadServiceAccount(sa) == ~JsonParses(sa) \/ ~CertAccepts(sa)

\* C1: in every inject call the five pipeline steps (admin initialization,
\* mint, exchange, lookup, payload shaping) and the script registration start
\* in the order of StepOrder, each immediately after the step before it
\* returned; a pipeline step that throws is the last thing the call does, so
\* no later step and no page call is started after it.
C1_PipelineStrictlySequential ==
  \A c \in Calls :
    LET r == calls[c] IN
    \A i \in DOMAIN r.log :
      LET e == r.log[i]
          k == StepIndex[e.step]
      IN IF e.ev = "start"
           THEN IF k = 1 THEN i = 1
                ELSE /\ i > 1
                     /\ r.log[i - 1].step = StepOrder[k - 1]
                     /\ IF k <= 6 THEN r.log[i - 1].ev = "ok"
                        ELSE r.log[i - 1].ev \in {"ok", "throw"}
         ELSE /\ i > 1
              /\ r.log[i - 1].ev = "start"
              /\ r.log[i - 1].step = e.step
              /\ (e.ev = "throw" /\ k <= 5) =>
                   i = Len(r.log) /\ r.pc = "done" /\ r.outcome = "rejected"
                                  /\ r.script = None /\ r.waited = None

\* C1 witness: a call whose four first steps returned and whose payload
\* shaping threw, the last event of the call
C1_Witness ==
  \E c \in Calls :
    /\ Len(calls[c].log) = 10
    /\ LastEvent(calls[c]) = Ev("shape", "throw")
    /\ Returned(calls[c], "lookup")

\* C2 (as claimed): whenever injectAuth rejects, the rejection is one of the
\* five taxonomy kinds.  The code lets the settle wait's error and the
\* TypeError of payload shaping through as they are.
C2_RejectionsAreTaxonomyKinds ==
  \A c \in Calls :
    (calls[c].entry = "injectAuth" /\ calls[c].outcome = "rejected") =>
      The(calls[c].error).kind \in TaxonomyKinds

\* C3 (as claimed): a call that received a non-2xx exchange response rejects
\* with TokenExchangeFailed carrying that response's status, whatever the
\* reading of the body did.  The code loses the status when the read throws.
C3_NonOkStatusCarried ==
  \A c \in Calls :
    LET r == calls[c] IN
    (IsSome(r.status) /\ The(r.status) \notin 200..299 /\ r.pc = "done") =>
      /\ r.outcome = "rejected"
      /\ The(r.error).kind = "TokenExchangeFailed"
      /\ The(r.error).statusCode = r.status

\* C4: if getUser throws after the exchange returned, the call rejects with
\* AuthenticationFailed (not TokenExchangeFailed) and page.addInitScript is
\* never called: no payload is shaped and no script is registered.
C4_LookupFailureIsAuthenticationFailed ==
  \A c \in Calls :
    LET r == calls[c] IN
    Threw(r, "lookup") =>
      /\ Returned(r, "exchange")
      /\ r.outcome = "rejected"
      /\ The(r.error).kind = "AuthenticationFailed"
      /\ The(r.error).cause = Some("LookupError")
      /\ ~Started(r, "shape") /\ ~Started(r, "addInitScript")
      /\ r.script = None

\* C4 witness: a call rejected by the lookup after a 200 exchange
C4_Witness ==
  \E c \in Calls :
    /\ LastEvent(calls[c]) = Ev("lookup", "throw")
    /\ calls[c].status = Some(200)
    /\ calls[c].outcome = "rejected"

C6_RegistrationFailureIsInjectionFailed ==
  \A c \in Calls :
    LET r == calls[c] IN
    Threw(r, "addInitScript") =>
      /\ r.outcome = "rejected"
      /\ r.error = Some(InjectionError(Some("ScriptError")))
      /\ ~Started(r, "goto") /\ ~Started(r, "waitForTimeout")
      /\ r.script = None /\ r.waited = None

\* C6 witness: a call rejected by the registration of a shaped payload
C6_Witness ==
  \E c \in Calls :
    /\ LastEvent(calls[c]) = Ev("addInitScript", "throw")
    /\ IsSome(calls[c].authData)
    /\ calls[c].outcome = "rejected"

\* C7 (as claimed): the config injectAuth hands to the Firebase strategy
\* passes validateConfig; a merged config that does not is rejected with
\* ConfigInvalid before admin initialization, mint or any network call.  The
\* code validates before the merge only.
C7_EffectiveConfigValidated ==
  \A c \in Calls :
    LET r == calls[c] IN
    (r.entry = "injectAuth" /\ r.strategy = Some("FirebaseAuthProvider")
       /\ IsSome(r.config)) =>
      \/ FirebaseValidateConfig(r.config).ok
      \/ /\ r.outcome = "rejected"
         /\ The(r.error).kind = "ConfigInvalid"
         /\ ~Started(r, "init") /\ ~Started(r, "mint")

\* C8: the effective config of an injectAuth call holds the fields of the
\* active provider's block and of the override and no others, each override
\* field with the override's value and every other field with the block's;
\* the config object and the cache keep both provider blocks (the inactive
\* one included) as the file gave them.
C8_OverrideIsShallowAndScoped ==
  LET file == FileConfig IN
  \A c \in Calls :
    LET r == calls[c] IN
    (r.entry = "injectAuth" /\ IsSome(r.config)) =>
      LET eff == The(r.config)
          ov == IF IsSome(r.profile) /\ IsSome(file.profiles)
                   /\ The(r.profile) \in DOMAIN The(file.profiles)
                  THEN The(file.profiles)[The(r.profile)]
                  ELSE <<>>
          block == The(file[file.provider])
      IN /\ DOMAIN eff = (DOMAIN block) \cup (DOMAIN ov)
         /\ \A f \in DOMAIN eff :
              eff[f] = IF f \in DOMAIN ov THEN ov[f] ELSE block[f]
         /\ The(r.loaded) = file
         /\ IsSome(cachedConfig) => The(cachedConfig) = file

\* C8 witness: a call under the profile "admin" on a config holding both
\* provider blocks, handed the alternate principal
C8_Witness ==
  \E c \in Calls :
    /\ calls[c].entry = "injectAuth"
    /\ calls[c].profile = Some("admin")
    /\ IsSome(calls[c].config)
    /\ The(calls[c].config) = [FirebaseBlock EXCEPT !.uid = "u2"]
    /\ IsSome(FileConfig.supabase)

\* C9: as long as resetAdminInitialization is not called, admin.initializeApp
\* returns at most once in the process, the flag is set exactly when it has,
\* and every call that enters initializeAdmin with the flag set returns from
\* it without initializing.
C9_AdminInitializedAtMostOnce ==
  adminResets = 0 =>
    /\ initCount <= 1
    /\ adminInitialized <=> initCount = 1
    /\ \A c \in Calls :
         calls[c].adminWas =>
           /\ Returned(calls[c], "init")
           /\ initCount = 1

\* C9 witness: two overlapping calls are both past admin initialization, the
\* second found the flag set, and initializeApp has returned once
C9_Witness ==
  /\ overlap /\ adminResets = 0 /\ initCount = 1
  /\ Returned(calls[1], "init") /\ ~calls[1].adminWas
  /\ Returned(calls[2], "init") /\ calls[2].adminWas
  /\ calls[1].pc # "done"

\* C10 (as claimed): every call whose serviceAccount is malformed JSON or
\* invalid key material rejects with AuthenticationFailed at admin
\* initialization, before any mint.
C10_BadServiceAccountAlwaysRejects ==
  \A c \in Calls :
    LET r == calls[c] IN
    (Started(r, "init")
       /\ BadServiceAccount(Get(The(r.config), "serviceAccount"))) =>
      /\ Threw(r, "init") /\ ~Started(r, "mint")
      /\ r.outcome = "rejected"
      /\ The(r.error).kind = "AuthenticationFailed"

\* C10 (amended): a call whose serviceAccount is malformed JSON or invalid key
\* material rejects with AuthenticationFailed at admin initialization, before
\* any mint, when it finds the admin SDK not yet initialized; when it finds
\* the flag set it does not look at its serviceAccount and goes on to mint.
C10_BadServiceAccountRejectsUninitialized ==
  \A c \in Calls :
    LET r == calls[c] IN
    (Started(r, "init")
       /\ BadServiceAccount(Get(The(r.config), "serviceAccount"))) =>
      IF r.adminWas
        THEN Returned(r, "init") /\ Started(r, "mint")
        ELSE /\ Threw(r, "init") /\ ~Started(r, "mint")
             /\ r.outcome = "rejected"
             /\ The(r.error).kind = "AuthenticationFailed"
             /\ IsSome(The(r.error).cause)

\* C10 witness: a call with an invalid key rejected at admin initialization
C10_Witness ==
  \E c \in Calls :
    /\ calls[c].entry = "inject"
    /\ IsSome(calls[c].config)
    /\ Get(The(calls[c].config), "serviceAccount") = "saBadKey"
    /\ ~calls[c].adminWas
    /\ LastEvent(calls[c]) = Ev("init", "throw")
    /\ The(calls[c].error).kind = "AuthenticationFailed"

\* The loadConfig calls, those that resolved, and those made since the cache
\* was last cleared
IsLoad(r) == r.entry = "loadConfig"
LoadResolved(r) == IsLoad(r) /\ r.outcome = "resolved"
ThisEpoch(r) == r.epoch = cacheClears

C12_FirstLoadsConverge ==
  \A c, d \in Calls :
    LET r == calls[c]
        q == calls[d]
    IN (c # d /\ IsLoad(r) /\ IsLoad(q) /\ r.cacheWas = None
          /\ q.cacheWas = None /\ r.pc = "done" /\ q.pc = "done"
          /\ r.outcome = "resolved" /\ q.outcome = "resolved"
          /\ ThisEpoch(r) /\ ThisEpoch(q)) =>
         /\ r.loaded = q.loaded
         /\ cachedConfig = r.loaded

\* C12 (amended): any two loadConfig calls for the same directory that
\* started while the cache was empty and have ended have ended alike: both
\* rejected with the same error, or both returned the same config, which the
\* cache then holds.
C12_FirstLoadsOfOneDirectoryConverge ==
  \A c, d \in Calls :
    LET r == calls[c]
        q == calls[d]
    IN (c # d /\ IsLoad(r) /\ IsLoad(q) /\ r.cacheWas = None
          /\ q.cacheWas = None /\ r.pc = "done" /\ q.pc = "done"
          /\ ThisEpoch(r) /\ ThisEpoch(q) /\ r.cwd = q.cwd) =>
         /\ r.outcome = q.outcome
         /\ r.error = q.error
         /\ r.loaded = q.loaded
         /\ r.outcome = "resolved" => cachedConfig = r.loaded

\* C12 witness: two overlapping loads of one directory that both imported
\* and validated have returned the same config, which the cache holds
C12_Witness ==
  /\ overlap
  /\ LoadResolved(calls[1]) /\ LoadResolved(calls[2])
  /\ Returned(calls[1], "import") /\ Returned(calls[2], "import")
  /\ calls[1].cwd = calls[2].cwd
  /\ calls[1].loaded = calls[2].loaded
  /\ cachedConfig = calls[1].loaded

\* C13: the payload registered on a page is the one its own call shaped: it
\* holds the uid and apiKey of that call's effective config, the tokens
\* issued for the custom token that call minted, and the profile of the user
\* record looked up for that call's uid; it holds no token issued to another
\* call in flight.
C13_PayloadIsTheCallsOwn ==
  \A c \in Calls :
    LET r == calls[c] IN
    IsSome(r.script) =>
      LET v == The(r.script).value
          u == The(r.userRecord)
      IN /\ r.script = r.authData
         /\ The(r.script).fbase_key = FbaseKey(Get(The(r.config), "apiKey"))
         /\ v.uid = UidOf(r) /\ v.apiKey = Get(The(r.config), "apiKey")
         /\ r.token = Some([uid |-> UidOf(r), n |-> r.id])
         /\ v.stsTokenManager.accessToken \in {IdToken(r.id), Undefined}
         /\ v.stsTokenManager.refreshToken = RefreshToken(r.id)
         /\ u \in Users(UidOf(r))
         /\ v.email = OrElse(u.email, "null")
         /\ \A d \in Calls \ {c} :
              calls[d].id # r.id =>
                /\ v.stsTokenManager.accessToken # IdToken(calls[d].id)
                /\ v.stsTokenManager.refreshToken # RefreshToken(calls[d].id)

\* C13 witness: two overlapping injectAuth calls under different profiles
\* have both registered a payload, for different principals with different
\* tokens
C13_Witness ==
  /\ overlap
  /\ calls[1].entry = "injectAuth" /\ calls[2].entry = "injectAuth"
  /\ IsSome(calls[1].script) /\ IsSome(calls[2].script)
  /\ calls[1].profile # calls[2].profile
  /\ The(calls[1].script).value.uid # The(calls[2].script).value.uid
  /\ The(calls[1].script).value.stsTokenManager.accessToken = IdToken(1)
  /\ The(calls[2].script).value.stsTokenManager.accessToken = IdToken(2)

\* C18: an injectAuth call whose loaded config selects 'supabase' ends
\* rejected with ConfigInvalid; once the Supabase strategy is selected the
\* call is rejected with ConfigInvalid (field 'provider') and has started no
\* step: no admin SDK call, no network call, no page call.
C18_SupabaseAlwaysConfigInvalid ==
  \A c \in Calls :
    LET r == calls[c] IN
    /\ (r.entry = "injectAuth" /\ IsSome(r.loaded)
          /\ The(r.loaded).provider = "supabase") =>
         /\ r.log = <<>> /\ ~r.adminWas
         /\ r.token = None /\ r.status = None /\ r.userRecord = None
         /\ r.script = None /\ ~r.gotoFailed /\ r.waited = None
         /\ r.pc = "done" =>
              r.outcome = "rejected" /\ The(r.error).kind = "ConfigInvalid"
    /\ r.strategy = Some("SupabaseAuthProvider") =>
         r.error = Some(ConfigInvalidError(Some("provider")))

\* C18 witness: an injectAuth call under the profile "sb" on a valid
\* supabase config is rejected by the Supabase strategy
C18_Witness ==
  \E c \in Calls :
    /\ calls[c].strategy = Some("SupabaseAuthProvider")
    /\ calls[c].profile = Some("sb")
    /\ calls[c].outcome = "rejected"
    /\ Get(The(calls[c].config), "email") = "x@y.com"

\* C20: if fetch rejects, or response.json() of a 2xx response rejects, the
\* call is rejected with TokenExchangeFailed without statusCode, carrying
\* the error thrown as cause, and getUser is not started.
C20_TransportFailureHasNoStatus ==
  \A c \in Calls :
    LET r == calls[c] IN
    (Threw(r, "exchange")
       /\ (r.status = None \/ The(r.status) \in 200..299)) =>
      /\ r.outcome = "rejected"
      /\ r.error =
           Some(TokenExchangeError(None,
                  Some(IF r.status = None THEN "FetchError" ELSE "BodyError")))
      /\ ~Started(r, "lookup") /\ r.userRecord = None /\ r.script = None

\* C20 witness: a call rejected because the body of a 200 response could not
\* be parsed
C20_Witness ==
  \E c \in Calls :
    /\ calls[c].status = Some(200)
    /\ LastEvent(calls[c]) = Ev("exchange", "throw")
    /\ The(calls[c].error).cause = Some("BodyError")

\* What the claims call a valid field: present in the block and a non-empty
\* string; the required fields of each provider in the order they are
\* checked; the first of them that is not valid; a dotted field path
RequiredFields(provider) ==
  IF provider = "firebase" THEN <<"serviceAccount", "apiKey", "uid">>
  ELSE <<"url", "anonKey", "email", "password">>
GoodField(block, f) ==
  f \in DOMAIN block /\ block[f] # "" /\ block[f] \notin NonStrings
BadFields(block, fields) ==
  {i \in DOMAIN fields : ~GoodField(block, fields[i])}
FirstBadField(block, fields) ==
  fields[CHOOSE i \in BadFields(block, fields) :
           \A j \in BadFields(block, fields) : i <= j]
Dotted(provider, f) == provider \o "." \o f

\* The absolute directory a cwd argument names, its candidate paths in the
\* fixed order, and the message that lists them
DirOf(cwd) == IF cwd \in AbsoluteDirs THEN <<cwd>> ELSE <<Cwd, cwd>>
Candidates(cwd) ==
  << DirOf(cwd) \o <<"playwright-auth.config.ts">>,
     DirOf(cwd) \o <<"playwright-auth.config.js">>,
     DirOf(cwd) \o <<"playwright-auth.config.mjs">> >>
ListsCandidates(cwd) ==
  << <<"heading">>, <<"  - ", Candidates(cwd)[1]>>,
     <<"  - ", Candidates(cwd)[2]>>, <<"  - ", Candidates(cwd)[3]>> >>
NoCandidate(cwd) == \A i \in 1..3 : Candidates(cwd)[i] \notin DOMAIN fs

\* C15: a loadConfig call whose import returned a default export rejects with
\* ConfigInvalid, field 'provider', when the provider is missing or is
\* neither 'firebase' nor 'supabase'; with ConfigInvalid naming
\* '<provider>.<field>' for the first required field of the selected block
\* that is missing, empty or not a string; and resolves with the default
\* export when the selected block is valid, whatever the other block holds.
C15_LoadConfigNamesTheField ==
  \A c \in Calls :
    LET r == calls[c] IN
    (IsLoad(r) /\ Returned(r, "import")
       /\ IsSome(fs[The(r.path)].default)) =>
      LET d == The(fs[The(r.path)].default) IN
      IF d.provider \notin {"firebase", "supabase"}
        THEN /\ r.outcome = "rejected"
             /\ r.error = Some(ConfigInvalidError(Some("provider")))
      ELSE IF ~IsSome(d[d.provider])
        THEN /\ r.outcome = "rejected"
             /\ r.error = Some(ConfigInvalidError(Some(d.provider)))
      ELSE IF BadFields(The(d[d.provider]), RequiredFields(d.provider)) # {}
        THEN /\ r.outcome = "rejected"
             /\ r.error =
                  Some(ConfigInvalidError(Some(
                    Dotted(d.provider,
                           FirstBadField(The(d[d.provider]),
                                         RequiredFields(d.provider))))))
             /\ r.loaded = None /\ cachedConfig # Some(d)
      ELSE r.outcome = "resolved" /\ r.loaded = Some(d)

\* C15 witness: a config selecting 'firebase' whose supabase block is invalid
\* has been loaded
C15_Witness ==
  \E c \in Calls :
    /\ LoadResolved(calls[c]) /\ Returned(calls[c], "validateConfig")
    /\ The(calls[c].loaded).provider = "firebase"
    /\ The(calls[c].loaded).supabase = Some([url |-> ""])

\* C16 (as claimed): a loadConfig call for a directory in which no candidate
\* exists ends rejected with ConfigNotFound.
C16_NoCandidateAlwaysNotFound ==
  \A c \in Calls :
    LET r == calls[c] IN
    (IsLoad(r) /\ r.pc = "done" /\ NoCandidate(The(r.cwd))) =>
      r.outcome = "rejected" /\ The(r.error).kind = "ConfigNotFound"

\* C16 (amended): a loadConfig call for a directory in which no candidate
\* exists, made while the cache is empty, is rejected with ConfigNotFound
\* whose message lists the absolute path of each candidate in the order .ts,
\* .js, .mjs; made while the cache is filled it returns the cached config.
C16_NoCandidateNotFoundWhenUncached ==
  \A c \in Calls :
    LET r == calls[c] IN
    (IsLoad(r) /\ NoCandidate(The(r.cwd))) =>
      IF r.cacheWas = None
        THEN /\ r.outcome = "rejected"
             /\ The(r.error).kind = "ConfigNotFound"
             /\ The(r.error).paths = Some(ListsCandidates(The(r.cwd)))
             /\ \A i \in 1..3 : Candidates(The(r.cwd))[i][1] \in AbsoluteDirs
             /\ ~Started(r, "import")
        ELSE r.outcome = "resolved" /\ r.loaded = r.cacheWas

\* C16 witness: a call for a relative directory without candidates is
\* rejected with ConfigNotFound
C16_Witness ==
  \E c \in Calls :
    /\ IsLoad(calls[c]) /\ calls[c].cwd = Some("sub")
    /\ calls[c].cacheWas = None
    /\ calls[c].outcome = "rejected"
    /\ The(calls[c].error).kind = "ConfigNotFound"

\* C17: the file a loadConfig call imports is the first candidate, in the
\* order .ts, .js, .mjs, that exists in its directory; the call imports one
\* file only, whether the import and the validation succeed or not.
C17_FirstExistingCandidateWins ==
  \A c \in Calls :
    LET r == calls[c] IN
    (IsLoad(r) /\ Started(r, "import")) =>
      /\ \E i \in 1..3 :
           /\ r.path = Some(Candidates(The(r.cwd))[i])
           /\ Candidates(The(r.cwd))[i] \in DOMAIN fs
           /\ \A j \in 1..(i - 1) : Candidates(The(r.cwd))[j] \notin DOMAIN fs
      /\ Cardinality({i \in DOMAIN r.log : r.log[i] = Ev("import", "start")}) = 1
      /\ r.outcome = "resolved" => r.loaded = fs[The(r.path)].default

\* C17 witness: in a directory holding a .js and a .mjs candidate the .js one
\* has been loaded
C17_Witness ==
  \E c \in Calls :
    /\ LoadResolved(calls[c]) /\ calls[c].cwd = Some("/other")
    /\ calls[c].path = Some(<<"/other", "playwright-auth.config.js">>)
    /\ <<"/other", "playwright-auth.config.mjs">> \in DOMAIN fs
    /\ calls[c].loaded = Some(GoodSupabase)

\* the registry name of a strategy
NameOf(strategy) ==
  IF strategy = "FirebaseAuthProvider" THEN "firebase" ELSE "supabase"

\* C14: validateConfig called with a block in which a required field is
\* absent, empty or not a string throws ConfigInvalid whose field is
\* '<provider>.<field>' for the first such field in the check order, and
\* returns nothing; called with a block whose required fields are all
\* non-empty strings it returns a config holding exactly those fields with
\* their values; called with null or undefined it throws ConfigInvalid.
C14_ValidateConfigNamesFirstBadField ==
  \A c \in Calls :
    LET r == calls[c] IN
    r.entry = "validateConfig" =>
      LET p == NameOf(The(r.strategy))
          fields == RequiredFields(p)
      IN IF ~IsSome(r.arg)
           THEN /\ r.outcome = "rejected" /\ r.loaded = None
                /\ The(r.error).kind = "ConfigInvalid"
         ELSE IF BadFields(The(r.arg), fields) # {}
           THEN /\ r.outcome = "rejected" /\ r.loaded = None
                /\ r.error =
                     Some(ConfigInvalidError(Some(
                       Dotted(p, FirstBadField(The(r.arg), fields)))))
         ELSE /\ r.outcome = "resolved" /\ r.error = None
              /\ r.loaded =
                   Some([f \in {fields[i] : i \in DOMAIN fields} |->
                           The(r.arg)[f]])

\* C14 witness: a Firebase block with a numeric apiKey and no uid is refused
\* for its apiKey
C14_Witness ==
  \E c \in Calls :
    /\ calls[c].entry = "validateConfig"
    /\ calls[c].arg = Some([serviceAccount |-> "saGood", apiKey |-> "#42"])
    /\ calls[c].error = Some(ConfigInvalidError(Some("firebase.apiKey")))

\* C19 (as claimed): getProvider returns the registered strategy for
\* 'firebase' and 'supabase', and for every other name throws an error that
\* is none of the five AuthError kinds.  The code looks the name up with
\* providers[name], which finds the properties an object literal inherits.
C19_UnknownProviderThrows ==
  \A c \in Calls :
    LET r == calls[c] IN
    r.entry = "getProvider" =>
      IF The(r.arg) \in {"firebase", "supabase"}
        THEN r.outcome = "resolved" /\ r.loaded = Some(providers[The(r.arg)])
        ELSE /\ r.outcome = "rejected"
             /\ The(r.error).kind \notin TaxonomyKinds

\* C21: if createCustomToken throws, the call rejects with
\* AuthenticationFailed whose message names the uid of the config inject was
\* given and whose cause is the error thrown, and the exchange request is
\* never sent: no token is held, no status was received.
C21_MintFailureIsAuthenticationFailed ==
  \A c \in Calls :
    LET r == calls[c] IN
    Threw(r, "mint") =>
      /\ r.outcome = "rejected"
      /\ The(r.error).kind = "AuthenticationFailed"
      /\ The(r.error).uid = Some(UidOf(r))
      /\ The(r.error).cause = Some("MintError")
      /\ ~Started(r, "exchange")
      /\ r.token = None /\ r.status = None /\ r.tokenResponse = None

\* C21 witness: a call for the principal u2 rejected by the mint
C21_Witness ==
  \E c \in Calls :
    /\ LastEvent(calls[c]) = Ev("mint", "throw")
    /\ calls[c].outcome = "rejected"
    /\ IsSome(calls[c].config)
    /\ UidOf(calls[c]) = "u2"

\* C22: in every call that resolved, the registered payload's
\* stsTokenManager.expirationTime is a number, and that number minus the
\* instant of lastLoginAt is the expiresIn of the exchange response times 1000.
C22_ExpirationIsIssuancePlusLifetime ==
  \A c \in Calls :
    LET r == calls[c] IN
    (r.outcome = "resolved" /\ IsSome(r.script)) =>
      LET v == The(r.script).value
          lifetime == ParseInt(Get(The(The(r.tokenResponse)), "expiresIn"))
      IN /\ IsSome(lifetime)
         /\ IsSome(v.stsTokenManager.expirationTime)
         /\ The(v.stsTokenManager.expirationTime) - v.lastLoginAt[2]
              = The(lifetime) * 1000

\* C23: the key of every registered payload is the string
\* 'firebase:authUser:' + apiKey + ':[DEFAULT]' for the apiKey of the config
\* inject was given, and two calls with the same apiKey register the same key
\* whatever their principals, tokens and profiles are.
C23_StorageKeyDependsOnApiKeyOnly ==
  /\ \A c \in Calls :
       IsSome(calls[c].script) =>
         The(calls[c].script).fbase_key =
           <<"firebase:authUser:", Get(The(calls[c].config), "apiKey"),
             ":[DEFAULT]">>
  /\ \A c, d \in Calls :
       (IsSome(calls[c].script) /\ IsSome(calls[d].script)
        /\ Get(The(calls[c].config), "apiKey")
             = Get(The(calls[d].config), "apiKey")) =>
         The(calls[c].script).fbase_key = The(calls[d].script).fbase_key

\* C23 witness: two calls under different profiles registered payloads for
\* different principals with different tokens under one key
C23_Witness ==
  /\ IsSome(calls[1].script) /\ IsSome(calls[2].script)
  /\ calls[1].profile # calls[2].profile
  /\ UidOf(calls[1]) # UidOf(calls[2])
  /\ The(calls[1].script).value.stsTokenManager
       # The(calls[2].script).value.stsTokenManager
  /\ The(calls[1].script).fbase_key = The(calls[2].script).fbase_key
  /\ The(calls[1].script).fbase_key[2] = "key1"

C25_MissingProfileFieldsDefaulted ==
  \A c \in Calls :
    LET r == calls[c] IN
    r.entry = "createAuthData" =>
      /\ r.outcome = "resolved" /\ IsSome(r.authData)
      /\ LET u == The(r.userRecord)
             v == The(r.authData).value
             linked == IF IsSome(u.providerData) THEN The(u.providerData)
                       ELSE <<>>
         IN /\ u.email = Undefined => v.email = "null"
            /\ u.emailVerified = Undefined => v.emailVerified = FALSE
            /\ u.providerData = None => v.providerData = <<>>
            /\ The(u.metadata).creationTime = Undefined =>
                 v.createdAt = v.lastLoginAt
            /\ Len(v.providerData) = Len(linked)
            /\ \A i \in DOMAIN linked :
                 \A f \in {"displayName", "email", "phoneNumber", "photoURL"} :
                   v.providerData[i][f] =
                     IF f \in DOMAIN linked[i] THEN linked[i][f] ELSE "null"

\* C25 witness: a record without email, flag and creation time, whose one
\* linked identity has a displayName and nothing else, has been shaped
C25_Witness ==
  \E c \in Calls :
    /\ calls[c].entry = "createAuthData" /\ IsSome(calls[c].authData)
    /\ LET u == The(calls[c].userRecord) IN
         /\ u.email = Undefined /\ u.emailVerified = Undefined
         /\ The(u.metadata).creationTime = Undefined
         /\ IsSome(u.providerData) /\ Len(The(u.providerData)) = 1
         /\ DOMAIN The(u.providerData)[1] = {"providerId", "uid", "displayName"}
    /\ The(calls[c].authData).value.providerData[1].photoURL = "null"

\* C26: whenever the exchange step has returned, the body it handed on holds
\* an idToken, a refreshToken and an expiresIn that is a decimal number; so
\* no payload is registered for a 2xx body lacking one of them.
C26_ExchangeHandsOnFullSession ==
  \A c \in Calls :
    LET r == calls[c] IN
    (Returned(r, "exchange") \/ IsSome(r.script)) =>
      /\ IsSome(The(r.tokenResponse))
      /\ LET t == The(The(r.tokenResponse)) IN
           /\ ~BadString(Get(t, "idToken"))
           /\ ~BadString(Get(t, "refreshToken"))
           /\ IsSome(ParseInt(Get(t, "expiresIn")))

\* C27: every inject call that resolved ended with exactly these events, in
\* this order and with nothing in between: page.addInitScript returned,
\* page.goto was called, page.goto returned or threw, page.waitForTimeout was
\* called, page.waitForTimeout returned; the page was not navigated and not
\* waited on before.
C27_RegisterThenNavigateThenSettle ==
  \A c \in Calls :
    LET r == calls[c]
        n == Len(r.log)
    IN (r.entry \in {"inject", "injectAuth"} /\ r.outcome = "resolved") =>
         /\ n >= 6
         /\ r.log[n - 4] = Ev("addInitScript", "ok")
         /\ r.log[n - 3] = Ev("goto", "start")
         /\ r.log[n - 2] \in {Ev("goto", "ok"), Ev("goto", "throw")}
         /\ r.log[n - 1] = Ev("waitForTimeout", "start")
         /\ r.log[n] = Ev("waitForTimeout", "ok")
         /\ \A i \in 1..(n - 4) :
              r.log[i].step \notin {"goto", "waitForTimeout"}
         /\ IsSome(r.script) /\ IsSome(r.waited)

\* C27 witness: a directly called inject resolved after a navigation that
\* succeeded
C27_Witness ==
  \E c \in Calls :
    /\ calls[c].entry = "inject" /\ calls[c].outcome = "resolved"
    /\ Returned(calls[c], "goto")
    /\ LastEvent(calls[c]) = Ev("waitForTimeout", "ok")

\* C28: page.waitForTimeout is called at most once in a call, not before
\* page.addInitScript returned, and exactly once as soon as page.goto has
\* returned or thrown; it is called with the waitAfter the caller gave (0
\* included) and with 2000 when the caller gave none, through injectAuth (which
\* forwards waitAfter: undefined) as well as directly.
C28_SettleWaitOnceWithCallersDelay ==
  \A c \in Calls :
    LET r == calls[c]
        waits == {i \in DOMAIN r.log :
                    r.log[i].ev = "start" /\ r.log[i].step = "waitForTimeout"}
    IN /\ Cardinality(waits) <= 1
       /\ ~Returned(r, "addInitScript") => waits = {} /\ r.waited = None
       /\ (Returned(r, "goto") \/ Threw(r, "goto")) =>
            /\ Cardinality(waits) = 1
            /\ r.waited = Some(IF IsSome(r.waitAfter) THEN The(r.waitAfter)
                                ELSE 2000)

\* C28 witness: injectAuth calls given waitAfter 0 and given no waitAfter
\* have both called page.waitForTimeout, with 0 and with 2000
C28_Witness ==
  \E c, d \in Calls :
    /\ calls[c].entry = "injectAuth" /\ calls[d].entry = "injectAuth"
    /\ calls[c].waitAfter = Some(0) /\ calls[c].waited = Some(0)
    /\ calls[d].waitAfter = None /\ calls[d].waited = Some(2000)

\* C29: whatever database the page started with (none, version 1 with the
\* store, version 1 without it), once the open request of the injection
\* script has succeeded the store firebaseLocalStorage exists and holds
\* authData.value under authData.fbase_key.
C29_OpenSuccessMeansStored ==
  \A c \in Calls :
    LET b == calls[c].browser IN
    b.request = "success" =>
      /\ "firebaseLocalStorage" \in DOMAIN The(b.db).stores
      /\ LET store == The(b.db).stores["firebaseLocalStorage"]
             authData == The(calls[c].script)
         IN /\ authData.fbase_key \in DOMAIN store
            /\ store[authData.fbase_key] = authData.value

\* C30: when the open request of the injection script has failed, the script
\* has written the error to console.error and done nothing else: the database
\* is as the page found it and no handler has thrown; and the inject call
\* ends as its page calls make it end: once page.goto has been called it
\* resolves exactly when page.waitForTimeout returned and rejects only when
\* that wait threw.
C30_OpenFailureOnlyLogged ==
  \A c \in Calls :
    LET r == calls[c]
        b == r.browser
    IN b.request = "error" =>
         /\ b.db = b.db0
         /\ b.errors = <<>>
         /\ Len(b.console) = 1
         /\ b.console[1] \in {"VersionError", "UnknownError"}
         /\ r.outcome = "resolved" <=> Returned(r, "waitForTimeout")
         /\ r.outcome = "rejected" <=> Threw(r, "waitForTimeout")

\* C30 witness: a call resolved on a page whose database was at version 2, so
\* that the open of the script failed with VersionError
C30_Witness ==
  \E c \in Calls :
    /\ calls[c].browser.request = "error"
    /\ calls[c].browser.console = <<"VersionError">>
    /\ calls[c].outcome = "resolved"
    /\ LastEvent(calls[c]) = Ev("waitForTimeout", "ok")

\* C33: after resetAdminInitialization a call behaves like the first call of
\* a new process: in a process whose admin SDK has been initialized, the
\* latest call, if it found the flag cleared by a reset and carries a valid
\* service account, has initialized the admin SDK and gone on to mint.
C33_CallAfterResetInitializes ==
  \A c \in Calls :
    LET r == calls[c] IN
    (adminResets > 0 /\ initCount > 0 /\ r.id = started
       /\ Started(r, "init") /\ ~r.adminWas
       /\ ~BadServiceAccount(Get(The(r.config), "serviceAccount"))) =>
      Returned(r, "init") /\ Started(r, "mint")

\* C31: in the log of every call each step is started at most once:
\* createCustomToken, the exchange POST, getUser, page.addInitScript,
\* page.goto and page.waitForTimeout are never called a second time, neither
\* after they returned nor after they threw.
C31_NoStepStartedTwice ==
  \A c \in Calls :
    LET r == calls[c]
        starts == {i \in DOMAIN r.log : r.log[i].ev = "start"}
    IN Cardinality({r.log[i].step : i \in starts}) = Cardinality(starts)

\* C31 witness: an injectAuth call rejected by a 400 answer to its one
\* exchange POST
C31_Witness ==
  \E c \in Calls :
    /\ calls[c].entry = "injectAuth" /\ calls[c].outcome = "rejected"
    /\ calls[c].status = Some(400)
    /\ LastEvent(calls[c]) = Ev("exchange", "throw")
    /\ Len(calls[c].log) = 6

\* C32: a call holds a token only once its own createCustomToken returned;
\* the exchange request of a call carries the token minted in that call for
\* that call's uid; and the tokens of different calls are different tokens, a
\* call made after another one failed included: no token is sent by two
\* exchange requests.
C32_ExchangeCarriesOwnFreshToken ==
  /\ \A c \in Calls :
       LET r == calls[c] IN
       /\ r.id <= started
       /\ IsSome(r.token) <=> Returned(r, "mint")
       /\ Started(r, "exchange") =>
            r.token = Some([uid |-> UidOf(r), n |-> r.id])
  /\ \A c, d \in Calls :
       (c # d /\ IsSome(calls[c].token) /\ IsSome(calls[d].token)) =>
         /\ calls[c].id # calls[d].id
         /\ calls[c].token # calls[d].token

\* C32 witness: a call for u1 failed at its exchange, and a second call for
\* u1 made afterwards has sent another token
C32_Witness ==
  /\ calls[1].outcome = "rejected"
  /\ LastEvent(calls[1]) = Ev("exchange", "throw")
  /\ calls[1].token = Some([uid |-> "u1", n |-> 1])
  /\ Started(calls[2], "exchange")
  /\ calls[2].token = Some([uid |-> "u1", n |-> 2])

\* C35: an injectAuth call whose profile the loaded Firebase config does not
\* define (the config has no profiles, or none of that name) is not rejected
\* for it: once past the selection it has entered inject with the provider
\* block as the file gave it, and the token it mints is for that block's uid.
C35_UndefinedProfileFallsBack ==
  LET file == FileConfig IN
  \A c \in Calls :
    LET r == calls[c] IN
    (/\ r.entry = "injectAuth" /\ IsSome(r.profile) /\ IsSome(r.loaded)
     /\ r.pc # "loaded"
     /\ file.provider = "firebase" /\ IsSome(file.firebase)
     /\ (IsSome(file.profiles) =>
           The(r.profile) \notin DOMAIN The(file.profiles))) =>
        /\ r.config = file.firebase
        /\ Started(r, "init")
        /\ r.outcome = "rejected" => The(r.error).kind # "ConfigInvalid"
        /\ IsSome(r.token) => The(r.token).uid = The(file.firebase).uid

\* C35 witness: a call under the profile 'ghost', which the config's
\* profiles do not include, has resolved with a payload for the default
\* principal
C35_Witness ==
  \E c \in Calls :
    /\ calls[c].profile = Some("ghost") /\ calls[c].outcome = "resolved"
    /\ IsSome(The(calls[c].loaded).profiles)
    /\ IsSome(calls[c].script)
    /\ The(calls[c].script).value.uid = "u1"

\* C36: whatever injectAuth calls were made, under whatever profiles, the
\* provider blocks of the cached config hold the values the file gave them,
\* and a call without a profile enters its strategy with the file's block: it
\* authenticates as the principal the file configures.
C36_CachedConfigNeverModified ==
  LET file == FileConfig IN
  /\ IsSome(cachedConfig) =>
       /\ The(cachedConfig).firebase = file.firebase
       /\ The(cachedConfig).supabase = file.supabase
       /\ The(cachedConfig).profiles = file.profiles
  /\ \A c \in Calls :
       LET r == calls[c] IN
       (r.entry = "injectAuth" /\ r.profile = None /\ IsSome(r.config)) =>
         /\ r.config = file[file.provider]
         /\ IsSome(r.token) => The(r.token).uid = The(r.config).uid

\* C36 witness: after a call under the profile 'admin' registered a payload
\* for u2, a call without profile answered from the cache has minted for u1
C36_Witness ==
  /\ calls[1].profile = Some("admin") /\ IsSome(calls[1].script)
  /\ The(calls[1].script).value.uid = "u2"
  /\ calls[2].entry = "injectAuth" /\ calls[2].profile = None
  /\ calls[2].path = None /\ IsSome(calls[2].token)
  /\ The(calls[2].token).uid = "u1"
  /\ IsSome(cachedConfig) /\ The(The(cachedConfig).firebase).uid = "u1"

\* C38: adminInitialized is set only when admin.initializeApp has returned in
\* this process; a call whose initialization threw had found the flag
\* cleared, is rejected with AuthenticationFailed and, as long as no other
\* call initialized, has left the flag cleared; a call that found the flag
\* cleared and got past initialization did run admin.initializeApp.
C38_FlagOnlyAfterInitializeAppReturned ==
  /\ adminInitialized => initCount >= 1
  /\ \A c \in Calls :
       LET r == calls[c] IN
       /\ Threw(r, "init") =>
            /\ ~r.adminWas
            /\ The(r.error).kind = "AuthenticationFailed"
            /\ initCount = 0 => ~adminInitialized
       /\ (Returned(r, "init") /\ ~r.adminWas) => initCount >= 1

\* C38 witness: the first call failed to initialize (malformed service
\* account), the second found the flag cleared, tried again and initialized
C38_Witness ==
  /\ Threw(calls[1], "init") /\ calls[1].id = 1
  /\ Get(The(calls[1].config), "serviceAccount") = "saMalformed"
  /\ calls[2].id = 2 /\ ~calls[2].adminWas /\ Returned(calls[2], "init")
  /\ adminInitialized /\ initCount = 1 /\ adminResets = 0

\* C39: no injectAuth call is rejected with the registry's unknown-provider
\* error: the config a call gets from loadConfig names 'firebase' or
\* 'supabase', and a call whose config file names anything else ends
\* rejected by loadConfig with ConfigInvalid, field 'provider', without a
\* config and without a strategy.
C39_UnknownProviderStoppedByLoadConfig ==
  \A c \in Calls :
    LET r == calls[c] IN
    r.entry = "injectAuth" =>
      /\ r.error # Some(PlainError("UnknownProvider"))
      /\ IsSome(r.loaded) => The(r.loaded).provider \in {"firebase", "supabase"}
      /\ (r.pc = "done" /\ IsSome(r.path)) =>
           LET m == fs[The(r.path)] IN
           (~m.throws /\ IsSome(m.default)
              /\ The(m.default).provider \notin {"firebase", "supabase"}) =>
             /\ r.error = Some(ConfigInvalidError(Some("provider")))
             /\ r.loaded = None /\ r.strategy = None /\ r.log = <<>>

\* C39 witness: a call on a config file naming the provider 'auth0' has been
\* rejected
C39_Witness ==
  \E c \in Calls :
    /\ calls[c].entry = "injectAuth" /\ calls[c].outcome = "rejected"
    /\ IsSome(calls[c].path)
    /\ IsSome(fs[The(calls[c].path)].default)
    /\ The(fs[The(calls[c].path)].default).provider = "auth0"
    /\ The(calls[c].error).kind = "ConfigInvalid"

\* C37: the cache is empty or holds the default export of a module of the
\* file system whose import returned and which validateConfig accepts; a
\* loadConfig call is rejected only when it found the cache empty, and, no
\* other call having loaded since, the cache is still empty after it; a call
\* that found the cache empty searched for the file again.
C37_CacheHoldsOnlyValidatedConfig ==
  /\ IsSome(cachedConfig) =>
       \E p \in DOMAIN fs :
         /\ ~fs[p].throws /\ fs[p].default = cachedConfig
         /\ ValidateConfig(fs[p].default).ok
  /\ \A c \in Calls :
       LET r == calls[c] IN
       IsLoad(r) =>
         /\ r.outcome = "rejected" =>
              /\ r.cacheWas = None
              /\ The(r.error).kind \in {"ConfigNotFound", "ConfigInvalid"}
              /\ (ThisEpoch(r) /\ \A d \in Calls \ {c} :
                                    calls[d].outcome # "resolved") =>
                   cachedConfig = None
         /\ r.cacheWas = None =>
              r.log # <<>> /\ r.log[1].step = "findConfigPath"

\* C37 witness: a load of 'sub' was rejected, and a later
\* load of '/proj', finding the cache still empty, loaded and cached
C37_Witness ==
  /\ calls[1].id = 1 /\ calls[1].cwd = Some("sub")
  /\ calls[1].outcome = "rejected"
  /\ calls[2].id = 2 /\ calls[2].cwd = Some("/proj")
  /\ calls[2].cacheWas = None /\ calls[2].outcome = "resolved"
  /\ cachedConfig = Some(GoodFirebase)

\* C40: the injection script is idempotent on the store: it runs again in
\* every document the page creates, and after a run that follows an earlier
\* one whose open succeeded, the store firebaseLocalStorage holds
\* authData.value under authData.fbase_key, whatever the page wrote under that
\* key in between.
C40_RerunsLeaveSessionStored ==
  \A c \in Calls :
    LET b == calls[c].browser IN
    (b.runs >= 2 /\ b.request = "success") =>
      LET stores == The(b.db).stores
          authData == The(calls[c].script)
      IN /\ "firebaseLocalStorage" \in DOMAIN stores
         /\ authData.fbase_key \in DOMAIN stores["firebaseLocalStorage"]
         /\ stores["firebaseLocalStorage"][authData.fbase_key] = authData.value

\* C34: provided every collaborator call (config import, mint, exchange
\* POST, profile lookup, addInitScript, goto, waitForTimeout) eventually
\* returns or throws, every injectAuth call in flight eventually resolves or
\* rejects.
C34_EveryInjectAuthCallSettles ==
  \A c \in Calls :
    (calls[c].entry = "injectAuth" /\ calls[c].pc \notin {"idle", "done"})
      ~> (calls[c].pc = "done")

\* C34 witness: an injectAuth call went through every collaborator call, from
\* the import of the config to the settle wait, and resolved
C34_Witness ==
  \E c \in Calls :
    /\ calls[c].entry = "injectAuth"
    /\ IsSome(calls[c].path)
    /\ Returned(calls[c], "waitForTimeout")
    /\ calls[c].pc = "done" /\ calls[c].outcome = "resolved"

====
